---- MODULE Spec2Model ----
(***************************************************************************)
(* State-machine model of the libretro bridge of RPCS3:                    *)
(*   - the frame hand-off between the RSX render thread and retro_run      *)
(*     (libretro_video.cpp: present fence, frame counters, shared render   *)
(*     texture and the two framebuffer objects),                           *)
(*   - the pause watchdog and the load/unload life cycle                   *)
(*     (libretro_core.cpp).                                                *)
(* Every thread is a program counter plus its locals; every atomic access  *)
(* of shared state is a step of its own.                                   *)
(***************************************************************************)
EXTENDS Integers, Sequences, FiniteSets, TLC

\* ------------------------------------------------------------------ bounds
\* Number of GLGSRender::flip calls the render thread makes.
MaxFlips == 4
\* Number of libretro_ensure_render_size / libretro_get_rsx_fbo calls.
MaxEnsure == 2
\* Number of libretro_blit_to_frontend calls made outside retro_run.
MaxBlits == 2
\* Number of retro_run ticks.
MaxTicks == 2
\* Watchdog threads the model can tell apart.
MaxThreads == 2
\* Length of the watchdog runs, in steps of the clock.
MaxTime == 6
\* Emu.Pause / Emu.Resume calls made by anyone but the watchdog.
MaxOtherCalls == 2
\* Life-cycle calls (retro_init, retro_load_game, ...) the host makes.
MaxCalls == 5
\* Steps of the clock during the life cycle.
MaxLongSteps == 2
\* retro_run ticks of a life cycle
LifecycleTicks == 1
\* Scenario D: number of short gaps before and after the long one.
ShortTicks == 20
\* Scenario D: clock steps a sleeping watchdog may oversleep.
MaxJitter == 1
\* Scenario D: how many ticks count as "a few".
FewTicks == 3
\* Number of retro_run ticks made against the audio thread.
PresentTicks == 1
\* Threads that check GL contexts out (RSX thread, shader compiler workers).
MaxWorkers == 2
\* Contexts precreate_shared_contexts is asked for (10 in libretro_gl_init).
PrecreateCount == 2
\* Number of make_context / delete_context calls.
MaxMakes == 2
MaxDeletes == 2
\* libretro_signal_frame_ready / libretro_wait_for_frame calls.
MaxSignals == 2
MaxWaits == 2
\* The audio ring, scaled down: PULL_FRAMES (2048 in the source) and the
\* largest max_frames a GetSamples caller passes
PullFrames == 2
MaxFrames == 2

\* --------------------------------------------------------------- constants
\* static int s_shared_texture_width / s_shared_texture_height
DefaultWidth == 1280
DefaultHeight == 720

\* constexpr long long pause_threshold_us / resume_threshold_us
pause_threshold_us == 100000
resume_threshold_us == 40000
\* std::this_thread::sleep_for(std::chrono::milliseconds(10)), in microseconds
sleep_us == 10000
\* Step of the clock where ticks come at any pace: 30 ms, so that elapsed times
\* fall below the resume threshold (0, 30 ms), between the thresholds (60,
\* 90 ms) and above the pause threshold (120 ms and more)
coarse_step_us == 3 * sleep_us

\* Sizes handed to libretro_ensure_render_size (0 exercises the <= 0 guard of
\* resize_rsx_render_resources).
Widths == {0, 640, DefaultWidth, 1920}
Heights == {0, 480, DefaultHeight, 1080}

FenceIds == 1..(MaxFlips + 1)
ThreadIds == 1..MaxThreads
Workers == 1..MaxWorkers
\* HGLRC values: MainCtx is the host's context, 0 is nullptr
MainCtx == 1
CtxIds == 1..(MainCtx + PrecreateCount + MaxMakes)
\* libretro_audio_process
FRAMES_PER_BATCH == 512
MAX_BATCHES == 4
\* Frame counts a GetSamples call under the lock is made to return
FrameCounts == {0, FRAMES_PER_BATCH - 1, FRAMES_PER_BATCH}

WaitResults == {"GL_ALREADY_SIGNALED", "GL_CONDITION_SATISFIED",
                "GL_TIMEOUT_EXPIRED", "GL_WAIT_FAILED"}

VARIABLES
    \* --- libretro_video.cpp statics
    s_gl_initialized,           \* static bool
    s_get_current_framebuffer,  \* callback pointer is non-null
    glFenceSync,                \* GL entry points resolved (pointer non-null)
    glClientWaitSync,
    glDeleteSync,
    s_frame_ready,
    s_frame_mutex,              \* "free" | "signaller" | "waiter"
    f_pc,                       \* the thread in libretro_wait_for_frame: its position
    f_timeout_ms,               \* its timeout_ms argument
    f_expired,                  \* its wait_for window is over
    f_notified,                 \* s_frame_cv has a notification for it
    g_pc,                       \* the thread in libretro_signal_frame_ready: its position
    wait_calls, signal_calls,
    h_wait_result,              \* what the last libretro_wait_for_frame call returned: "none" | "true" | "false"
    h_wait_blocked,             \* that call found no frame ready and blocked on s_frame_cv
    h_unconsumed,               \* a signal has set the flag since the last wait that returned true
    s_frame_count,              \* produced
    s_last_presented_frame,     \* consumed
    s_present_fence,            \* 0 = nullptr, else a fence
    s_present_fence_counter,
    s_shared_texture,           \* 0 = none
    s_rsx_fbo,
    s_main_read_fbo,
    s_depth_stencil_rb,
    s_shared_texture_width,
    s_shared_texture_height,
    s_rsx_resources_created,
    s_main_fbo_created,
    \* --- GL objects
    fence_st,                   \* fence -> "none" | "live" | "deleted" | "double_deleted"
    tex_storage,                \* <<w, h>> of the texture's storage
    rb_storage,                 \* <<w, h>> of the depth/stencil renderbuffer
    fbo_gen,                    \* framebuffer names glGenFramebuffers has handed out on the main context
    h_resizes,                  \* resize_rsx_render_resources calls that have completed
    h_fbo_resizes,              \* h_resizes when s_main_read_fbo was created
    \* --- render (RSX) thread
    r_pc, r_fence, r_old, r_w, r_h,
    tl_flip_count,              \* thread_local in LibretroGSFrame::flip
    flip_calls, ensure_calls,
    h_ensure,                   \* arguments of the libretro_ensure_render_size calls the render thread has just made in a row with the same arguments
    \* --- host main thread
    m_pc, m_fence, m_result, m_has_new_frame, m_count, m_w, m_h, m_in_run, blit_calls,
    h_trace,                    \* program positions the main thread has passed in its current call
    \* --- LibretroAudioBackend and libretro_audio_process
    m_mutex,                    \* holder of the std::timed_mutex: "free" | "main" | "emu"
    batch,                      \* loop counter of libretro_audio_process
    m_initialized, m_playing,
    m_write_callback,           \* a write callback is set
    m_channels,
    m_sample_size,              \* bytes per sample: 2 (s16) or 4 (float)
    m_ring_buffer_bytes,        \* m_ring_buffer_bytes.size()
    m_ring_read_pos, m_ring_write_pos, m_ring_size,
    b_pc,                       \* the GetSamples caller: "idle" | "lock" | "pull" | "read"
    b_max_frames, b_pulls,
    \* --- history of the frame hand-off (not program state)
    h_last_installed,           \* fence of the most recent install
    h_waited,                   \* fences the consumer has waited on
    h_taken,                    \* fences the consumer has exchanged out of the slot
    h_frame_fence,              \* h_frame_fence[n] = fence installed by the flip that produced frame n
    h_seen_count,               \* s_frame_count as loaded by the last libretro_has_new_frame
    h_sizes,                    \* sizes the render target has had (after create / a completed resize)
    h_blit_size,                \* <<w, h>> used by the last glBlitFramebuffer
    h_blit_count,               \* s_frame_count at the last glBlitFramebuffer
    h_video_cb,                 \* argument of the last video_cb call
    \* --- libretro_core.cpp statics
    core_initialized, game_loaded, pending_game_boot,
    s_pause_watchdog_running, s_pause_watchdog_stop, s_paused_by_watchdog,
    s_last_retro_run_us,
    s_pause_watchdog_thread,    \* std::thread handle: 0 = not joinable, else the thread it owns
    terminated,                 \* std::terminate was called
    \* --- watchdog threads (the lambda of start_pause_watchdog), one entry per thread
    wd_pc, wd_now, wd_last, wd_wake,
    \* --- environment: steady clock and the emulator core
    now_us, emu_state,
    \* --- history of the pause coordination (not program state)
    h_pauses, h_resumes,        \* Emu.Pause / Emu.Resume calls made by the watchdog
    h_pause_owner,              \* who caused the emulator's current pause
    h_ticks,                    \* retro_run ticks so far
    h_tick_us,                  \* time of the last tick (or of the watchdog start)
    h_crossings,                \* completed tick gaps above the pause threshold
    h_gaps_ok,                  \* every gap completed after the crossing lay strictly between the thresholds
    h_pause_tick, h_resume_tick,\* h_ticks at the watchdog's last pause / resume
    h_cross_tick,               \* h_ticks of the last tick that ended a gap above the pause threshold
    other_calls,                \* Emu.Pause / Emu.Resume calls made by anyone but the watchdog
    m_site,                     \* the call site start/stop_pause_watchdog returns to
    host_calls,                 \* life-cycle calls the host has made
    h_drain,                    \* the GetSamples calls of the last libretro_audio_process call: frames asked,
                                \* frames returned, whether audio_batch_cb was called (kept by SpecAudio only)
    h_load_result,              \* what the retro_load_game call behind the pending boot returned
    h_boot,                     \* how the do_boot_game call of the running context_reset went
    environ_cb,                 \* the host: which RETRO_ENVIRONMENT_SET_HW_RENDER requests it accepts
    hw_render,                  \* retro_hw_render_callback: context_type, version_major, version_minor
    h_hw_calls,                 \* the SET_HW_RENDER requests of the last setup_hw_render call, in order
    h_hw_ret,                   \* what that call returned: "none" | "true" | "false"
    \* --- libretro_video.cpp statics of the context pool (_WIN32 build)
    s_main_hdc,                 \* HDC is non-null
    s_main_hglrc,               \* 0 = nullptr, else MainCtx
    wglCreateContextAttribsARB_ptr, \* pointer is non-null
    s_available_contexts,       \* std::vector<HGLRC>: the pre-created pool
    s_shared_contexts,          \* std::vector<HGLRC>: the contexts handed out
    s_context_pool_mutex,       \* 0 = free, else the worker that holds it
    s_video_mutex,
    ctx_st,                     \* context -> "none" | "live" | "deleted" | "double_deleted"
    ctx_gen,                    \* contexts the platform has created so far
    \* --- threads that call make_context / delete_context, one entry per worker
    c_pc, c_ctx,                \* position; the local shared_context / hglrc
    c_held,                     \* contexts make_context has returned to the worker
    make_calls, delete_calls,
    \* --- history of the context pool (not program state)
    h_make,                     \* per worker, its last make_context call: pool found empty,
                                \* platform calls made, finished, value returned
    h_released,                 \* contexts a finished delete_context call was given
    h_video_inits               \* libretro_video_init calls so far (counted by SpecPool only)

gl_caps == <<glFenceSync, glClientWaitSync, glDeleteSync>>
init_vars == <<s_gl_initialized, s_get_current_framebuffer>>
counter_vars == <<s_frame_ready, s_frame_count, s_last_presented_frame>>
fence_vars == <<s_present_fence, s_present_fence_counter, fence_st>>
tex_vars == <<s_shared_texture, s_rsx_fbo, s_depth_stencil_rb, s_shared_texture_width,
              s_shared_texture_height, s_rsx_resources_created, tex_storage, rb_storage>>
mainfbo_vars == <<s_main_read_fbo, s_main_fbo_created, fbo_gen, h_resizes, h_fbo_resizes>>
render_vars == <<r_pc, r_fence, r_old, r_w, r_h, tl_flip_count, flip_calls, ensure_calls,
                 h_ensure>>
main_vars == <<m_pc, m_fence, m_result, m_has_new_frame, m_count, m_w, m_h, m_in_run,
               blit_calls, h_trace>>
hist_vars == <<h_last_installed, h_waited, h_taken, h_frame_fence, h_seen_count, h_sizes,
               h_blit_size, h_blit_count, h_video_cb>>
core_vars == <<core_initialized, game_loaded, pending_game_boot, m_site, host_calls,
               h_load_result, h_boot>>
wdflag_vars == <<s_pause_watchdog_running, s_pause_watchdog_stop, s_pause_watchdog_thread,
                 terminated>>
wd_vars == <<wd_pc, wd_now, wd_last, wd_wake>>
pause_vars == <<s_paused_by_watchdog, emu_state, h_pauses, h_resumes, h_pause_owner,
                h_pause_tick, h_resume_tick, other_calls>>
tick_vars == <<s_last_retro_run_us, h_ticks, h_tick_us, h_crossings, h_gaps_ok,
               h_cross_tick>>

ctx_vars == <<s_main_hdc, s_main_hglrc, wglCreateContextAttribsARB_ptr,
              s_available_contexts, s_shared_contexts, s_context_pool_mutex, s_video_mutex,
              ctx_st, ctx_gen, c_pc, c_ctx, c_held, make_calls, delete_calls, h_make,
              h_released, h_video_inits>>

audio_vars == <<m_mutex, batch, h_drain>>

ring_vars == <<m_initialized, m_playing, m_write_callback, m_channels, m_sample_size,
               m_ring_buffer_bytes, m_ring_read_pos, m_ring_write_pos, m_ring_size, b_pc,
               b_max_frames, b_pulls>>

wait_vars == <<s_frame_mutex, f_pc, f_timeout_ms, f_expired, f_notified, g_pc, wait_calls,
               signal_calls, h_wait_result, h_wait_blocked, h_unconsumed>>

hw_vars == <<environ_cb, hw_render, h_hw_calls, h_hw_ret>>

vars == <<audio_vars, ctx_vars, hw_vars, ring_vars, wait_vars, gl_caps, init_vars, counter_vars, fence_vars, tex_vars, mainfbo_vars,
          render_vars, main_vars, hist_vars, core_vars, wdflag_vars, wd_vars,
          pause_vars, tick_vars, now_us>>

\* ===================================================== libretro_video.cpp
\* glDeleteSync(f) on the fence table
DeleteSync(f) ==
    [fence_st EXCEPT ![f] = IF @ = "live" THEN "deleted" ELSE "double_deleted"]

\* create_rsx_render_resources(width, height): the new values of tex_vars
create_rsx_render_resources(width, height) ==
    IF s_rsx_resources_created
    THEN UNCHANGED <<tex_vars, h_sizes>>
    ELSE /\ s_shared_texture' = 1
         /\ tex_storage' = <<width, height>>
         /\ s_rsx_fbo' = 1
         /\ s_depth_stencil_rb' = 1
         /\ rb_storage' = <<width, height>>
         /\ s_shared_texture_width' = width
         /\ s_shared_texture_height' = height
         /\ s_rsx_resources_created' = TRUE
         /\ h_sizes' = h_sizes \cup {<<width, height>>}

\* Mutant of libretro_has_new_frame: a presented frame still counts as new
libretro_has_new_frame_ge == s_frame_count >= s_last_presented_frame

\* bool libretro_has_new_frame()
libretro_has_new_frame == s_frame_count > s_last_presented_frame

\* ------------------------------------------------ render (RSX) thread
\* GLGSRender::flip entry: a skipped frame goes straight to
\* LibretroGSFrame::flip(ctx, true), which returns at once.
GLGSRender_flip(skip_frame) ==
    /\ r_pc = "idle"
    /\ flip_calls < MaxFlips
    /\ flip_calls' = flip_calls + 1
    /\ r_pc' = IF skip_frame THEN "idle" ELSE "bind"
    /\ UNCHANGED <<r_fence, r_old, r_w, r_h, tl_flip_count, ensure_calls>>
    /\ h_ensure' = <<>>
    /\ UNCHANGED <<audio_vars, ctx_vars, hw_vars, ring_vars, wait_vars, gl_caps, init_vars, counter_vars, fence_vars, tex_vars, mainfbo_vars,
                   main_vars, hist_vars, core_vars, wdflag_vars, wd_vars, pause_vars,
                   tick_vars, now_us>>

\* libretro_bind_hw_fbo -> libretro_get_rsx_fbo: lazy creation at the current size
libretro_bind_hw_fbo ==
    /\ r_pc = "bind"
    /\ create_rsx_render_resources(s_shared_texture_width, s_shared_texture_height)
    /\ r_pc' = "fence"
    /\ UNCHANGED <<r_fence, r_old, r_w, r_h, tl_flip_count, flip_calls, ensure_calls, h_ensure>>
    /\ UNCHANGED <<h_last_installed, h_waited, h_taken, h_frame_fence, h_seen_count, h_blit_size, h_blit_count,
                   h_video_cb>>
    /\ UNCHANGED <<audio_vars, ctx_vars, hw_vars, ring_vars, wait_vars, gl_caps, init_vars, counter_vars, fence_vars, mainfbo_vars, main_vars,
                   core_vars, wdflag_vars, wd_vars, pause_vars, tick_vars, now_us>>

\* LibretroGSFrame::flip, skip_frame = false: glFenceSync + glFlush
flip_fence ==
    /\ r_pc = "fence"
    /\ IF ~glFenceSync \/ ~glDeleteSync
       THEN /\ r_pc' = "count"
            /\ UNCHANGED <<r_fence, fence_st>>
       ELSE /\ r_fence' = s_present_fence_counter + 1
            /\ fence_st' = [fence_st EXCEPT ![s_present_fence_counter + 1] = "live"]
            /\ r_pc' = "install"
    /\ UNCHANGED <<s_present_fence, s_present_fence_counter>>
    /\ UNCHANGED <<r_old, r_w, r_h, tl_flip_count, flip_calls, ensure_calls, h_ensure>>
    /\ UNCHANGED <<audio_vars, ctx_vars, hw_vars, ring_vars, wait_vars, gl_caps, init_vars, counter_vars, tex_vars, mainfbo_vars, main_vars,
                   hist_vars, core_vars, wdflag_vars, wd_vars, pause_vars, tick_vars, now_us>>

\* Mutant of InstalledFence: the install keeps a fence that is still pending
InstalledFence_keep_old(fence) == IF s_present_fence # 0 THEN s_present_fence ELSE fence

\* The value s_present_fence.exchange(fence) leaves in the slot
InstalledFence(fence) == fence

\* Mutant of AfterInstall: the producer leaves the fence it swapped out alone
AfterInstall_keeps_old(old) == "count"

\* if (old) { glDeleteSync(old); }
AfterInstall(old) == IF old # 0 THEN "delete_old" ELSE "count"

\* s_present_fence_counter.fetch_add(1); old = s_present_fence.exchange(fence)
flip_install ==
    /\ r_pc = "install"
    /\ s_present_fence_counter' = s_present_fence_counter + 1
    /\ r_old' = s_present_fence
    /\ s_present_fence' = InstalledFence(r_fence)
    /\ h_last_installed' = r_fence
    /\ r_pc' = AfterInstall(s_present_fence)
    /\ UNCHANGED fence_st
    /\ UNCHANGED <<r_fence, r_w, r_h, tl_flip_count, flip_calls, ensure_calls, h_ensure>>
    /\ UNCHANGED <<h_waited, h_taken, h_frame_fence, h_seen_count, h_sizes, h_blit_size, h_blit_count, h_video_cb>>
    /\ UNCHANGED <<audio_vars, ctx_vars, hw_vars, ring_vars, wait_vars, gl_caps, init_vars, counter_vars, tex_vars, mainfbo_vars, main_vars,
                   core_vars, wdflag_vars, wd_vars, pause_vars, tick_vars, now_us>>

\* if (old) glDeleteSync(old)
flip_delete_old ==
    /\ r_pc = "delete_old"
    /\ fence_st' = DeleteSync(r_old)
    /\ r_old' = 0
    /\ r_pc' = "count"
    /\ UNCHANGED <<s_present_fence, s_present_fence_counter>>
    /\ UNCHANGED <<r_fence, r_w, r_h, tl_flip_count, flip_calls, ensure_calls, h_ensure>>
    /\ UNCHANGED <<audio_vars, ctx_vars, hw_vars, ring_vars, wait_vars, gl_caps, init_vars, counter_vars, tex_vars, mainfbo_vars, main_vars,
                   hist_vars, core_vars, wdflag_vars, wd_vars, pause_vars, tick_vars, now_us>>

\* ------------------------------ libretro_signal_frame_ready / wait_for_frame
\* What no step of the signalling or of the waiting thread changes
FrameWaitFrame ==
    UNCHANGED <<s_last_presented_frame, audio_vars, ring_vars, ctx_vars, hw_vars, gl_caps, init_vars,
                fence_vars, tex_vars, mainfbo_vars, render_vars, main_vars, hist_vars,
                core_vars, wdflag_vars, wd_vars, pause_vars, tick_vars, now_us>>

\* libretro_signal_frame_ready: std::lock_guard lock(s_frame_mutex)
signal_lock ==
    /\ g_pc = "idle"
    /\ signal_calls < MaxSignals
    /\ s_frame_mutex = "free"
    /\ s_frame_mutex' = "signaller"
    /\ signal_calls' = signal_calls + 1
    /\ g_pc' = "set"
    /\ UNCHANGED <<s_frame_ready, s_frame_count, f_pc, f_timeout_ms, f_expired, f_notified,
                   wait_calls, h_wait_result, h_wait_blocked, h_unconsumed>>
    /\ FrameWaitFrame

\* s_frame_ready = true; s_frame_count++; the lock_guard's scope ends
signal_set ==
    /\ g_pc = "set"
    /\ s_frame_ready' = TRUE
    /\ s_frame_count' = s_frame_count + 1
    /\ s_frame_mutex' = "free"
    /\ h_unconsumed' = TRUE
    /\ g_pc' = "notify"
    /\ UNCHANGED <<f_pc, f_timeout_ms, f_expired, f_notified, wait_calls, signal_calls,
                   h_wait_result, h_wait_blocked>>
    /\ FrameWaitFrame

\* s_frame_cv.notify_one(): wakes a thread that is blocked on s_frame_cv
signal_notify ==
    /\ g_pc = "notify"
    /\ f_notified' = (f_pc = "waiting")
    /\ g_pc' = "idle"
    /\ UNCHANGED <<s_frame_ready, s_frame_count, s_frame_mutex, f_pc, f_timeout_ms,
                   f_expired, wait_calls, signal_calls, h_wait_result, h_wait_blocked,
                   h_unconsumed>>
    /\ FrameWaitFrame

\* The timeout_ms arguments: 0 waits indefinitely, 20 is the default
Timeouts == {0, 20}

\* libretro_wait_for_frame(timeout_ms): std::unique_lock lock(s_frame_mutex)
libretro_wait_for_frame(timeout_ms) ==
    /\ f_pc = "idle"
    /\ wait_calls < MaxWaits
    /\ s_frame_mutex = "free"
    /\ s_frame_mutex' = "waiter"
    /\ wait_calls' = wait_calls + 1
    /\ f_timeout_ms' = timeout_ms
    /\ f_expired' = FALSE
    /\ f_notified' = FALSE
    /\ h_wait_result' = "none"
    /\ h_wait_blocked' = FALSE
    /\ f_pc' = "exchange"
    /\ UNCHANGED <<s_frame_ready, s_frame_count, g_pc, signal_calls, h_unconsumed>>
    /\ FrameWaitFrame

\* The call returns result; the unique_lock's scope ends
WaitReturn(result) ==
    /\ f_pc' = "idle"
    /\ s_frame_mutex' = "free"
    /\ h_wait_result' = (IF result THEN "true" ELSE "false")
    /\ h_unconsumed' = (IF result THEN FALSE ELSE h_unconsumed)

\* if (s_frame_ready.exchange(false)) return true; otherwise block on
\* s_frame_cv, which releases the mutex
wait_exchange ==
    /\ f_pc = "exchange"
    /\ s_frame_ready' = FALSE
    /\ IF s_frame_ready
       THEN WaitReturn(TRUE) /\ UNCHANGED h_wait_blocked
       ELSE /\ f_pc' = "waiting"
            /\ s_frame_mutex' = "free"
            /\ h_wait_blocked' = TRUE
            /\ UNCHANGED <<h_wait_result, h_unconsumed>>
    /\ UNCHANGED <<s_frame_count, f_timeout_ms, f_expired, f_notified, g_pc, wait_calls,
                   signal_calls>>
    /\ FrameWaitFrame

\* The window of wait_for(lock, timeout_ms, pred) is over
wait_expire ==
    /\ f_pc = "waiting"
    /\ f_timeout_ms > 0
    /\ ~f_expired
    /\ f_expired' = TRUE
    /\ UNCHANGED <<s_frame_ready, s_frame_count, s_frame_mutex, f_pc, f_timeout_ms,
                   f_notified, g_pc, wait_calls, signal_calls, h_wait_result,
                   h_wait_blocked, h_unconsumed>>
    /\ FrameWaitFrame

\* The blocked thread wakes (notified, timed out, or spuriously) and takes the
\* mutex again
wait_wake(spurious) ==
    /\ f_pc = "waiting"
    /\ f_notified \/ f_expired \/ spurious
    /\ s_frame_mutex = "free"
    /\ s_frame_mutex' = "waiter"
    /\ f_notified' = FALSE
    /\ f_pc' = "woken"
    /\ UNCHANGED <<s_frame_ready, s_frame_count, f_timeout_ms, f_expired, g_pc, wait_calls,
                   signal_calls, h_wait_result, h_wait_blocked, h_unconsumed>>
    /\ FrameWaitFrame

\* Mutant of WakeOutcome: a timed-out wait returns false without looking at
\* the predicate again
WakeOutcome_timeout_first(ready, expired) ==
    IF expired THEN "false" ELSE IF ready THEN "true" ELSE "wait"

\* s_frame_cv.wait(lock, pred) / wait_for(lock, timeout, pred) after a wake-up:
\* true when the predicate holds, the predicate's value (false) when the
\* window is over, otherwise block again
WakeOutcome(ready, expired) ==
    IF ready THEN "true" ELSE IF expired THEN "false" ELSE "wait"

\* The predicate []{ return s_frame_ready.load(); } under the mutex, then
\* s_frame_ready = false and return true, or return false
wait_check ==
    /\ f_pc = "woken"
    /\ LET outcome == WakeOutcome(s_frame_ready, f_expired)
       IN /\ s_frame_ready' = (IF outcome = "true" THEN FALSE ELSE s_frame_ready)
          /\ IF outcome = "wait"
             THEN /\ f_pc' = "waiting"
                  /\ s_frame_mutex' = "free"
                  /\ UNCHANGED <<h_wait_result, h_unconsumed>>
             ELSE WaitReturn(outcome = "true")
    /\ UNCHANGED <<s_frame_count, f_timeout_ms, f_expired, f_notified, g_pc, wait_calls,
                   signal_calls, h_wait_blocked>>
    /\ FrameWaitFrame

\* Mutant of SignalsFrame: every flip signals a frame
SignalsFrame_every_flip(count) == TRUE

\* if ((tl_flip_count % 2) == 0), on the incremented count
SignalsFrame(count) == count % 2 = 0

\* tl_flip_count++; every second flip calls libretro_signal_frame_ready()
flip_count ==
    /\ r_pc = "count"
    /\ tl_flip_count' = tl_flip_count + 1
    /\ IF SignalsFrame(tl_flip_count + 1)
       THEN /\ s_frame_ready' = TRUE
            /\ s_frame_count' = s_frame_count + 1
            /\ h_frame_fence' = Append(h_frame_fence, r_fence)
       ELSE UNCHANGED <<s_frame_ready, s_frame_count, h_frame_fence>>
    /\ r_fence' = 0
    /\ r_pc' = "idle"
    /\ UNCHANGED s_last_presented_frame
    /\ UNCHANGED <<r_old, r_w, r_h, flip_calls, ensure_calls, h_ensure>>
    /\ UNCHANGED <<h_last_installed, h_waited, h_taken, h_seen_count, h_sizes, h_blit_size, h_blit_count, h_video_cb>>
    /\ UNCHANGED <<audio_vars, ctx_vars, hw_vars, ring_vars, wait_vars, gl_caps, init_vars, fence_vars, tex_vars, mainfbo_vars, main_vars,
                   core_vars, wdflag_vars, wd_vars, pause_vars, tick_vars, now_us>>

\* unsigned int libretro_get_rsx_fbo(), called on its own
libretro_get_rsx_fbo ==
    /\ r_pc = "idle"
    /\ ensure_calls < MaxEnsure
    /\ ensure_calls' = ensure_calls + 1
    /\ create_rsx_render_resources(s_shared_texture_width, s_shared_texture_height)
    /\ UNCHANGED <<r_pc, r_fence, r_old, r_w, r_h, tl_flip_count, flip_calls>>
    /\ h_ensure' = <<>>
    /\ UNCHANGED <<h_last_installed, h_waited, h_taken, h_frame_fence, h_seen_count, h_blit_size, h_blit_count,
                   h_video_cb>>
    /\ UNCHANGED <<audio_vars, ctx_vars, hw_vars, ring_vars, wait_vars, gl_caps, init_vars, counter_vars, fence_vars, mainfbo_vars, main_vars,
                   core_vars, wdflag_vars, wd_vars, pause_vars, tick_vars, now_us>>

\* The test of libretro_ensure_render_size that sends a call to the resize
NeedsResize(width, height) ==
    width > s_shared_texture_width \/ height > s_shared_texture_height

\* Mutant of ResizeTarget: the resize takes the new width and keeps the height
ResizeTarget_keeps_height(width, height) == <<width, s_shared_texture_height>>

\* resize_rsx_render_resources(width, height): the size it resizes to
ResizeTarget(width, height) == <<width, height>>

\* void libretro_ensure_render_size(int width, int height), up to the first
\* GL call of resize_rsx_render_resources
libretro_ensure_render_size(width, height) ==
    /\ r_pc = "idle"
    /\ ensure_calls < MaxEnsure
    /\ ensure_calls' = ensure_calls + 1
    /\ IF ~s_rsx_resources_created
       THEN /\ create_rsx_render_resources(width, height)
            /\ UNCHANGED <<r_pc, r_w, r_h>>
       ELSE /\ UNCHANGED <<tex_vars, h_sizes>>
            /\ IF /\ NeedsResize(width, height)
                  /\ ~(width <= 0 \/ height <= 0)
                  /\ ~(width = s_shared_texture_width /\ height = s_shared_texture_height)
               THEN /\ r_pc' = "resize_tex"
                    /\ r_w' = ResizeTarget(width, height)[1]
                    /\ r_h' = ResizeTarget(width, height)[2]
               ELSE UNCHANGED <<r_pc, r_w, r_h>>
    /\ UNCHANGED <<r_fence, r_old, tl_flip_count, flip_calls>>
    /\ h_ensure' = (IF h_ensure # <<>> /\ h_ensure[1] = <<width, height>>
                    THEN Append(h_ensure, <<width, height>>)
                    ELSE <<(<<width, height>>)>>)
    /\ UNCHANGED <<h_last_installed, h_waited, h_taken, h_frame_fence, h_seen_count, h_blit_size, h_blit_count,
                   h_video_cb>>
    /\ UNCHANGED <<audio_vars, ctx_vars, hw_vars, ring_vars, wait_vars, gl_caps, init_vars, counter_vars, fence_vars, mainfbo_vars, main_vars,
                   core_vars, wdflag_vars, wd_vars, pause_vars, tick_vars, now_us>>

\* A step of resize_rsx_render_resources that changes tex_vars only
ResizeStep(from, to) ==
    /\ r_pc = from
    /\ r_pc' = to
    /\ UNCHANGED <<r_fence, r_old, r_w, r_h, tl_flip_count, flip_calls, ensure_calls, h_ensure>>
    /\ UNCHANGED <<h_last_installed, h_waited, h_taken, h_frame_fence, h_seen_count, h_blit_size, h_blit_count,
                   h_video_cb>>
    /\ UNCHANGED <<audio_vars, ctx_vars, hw_vars, ring_vars, wait_vars, gl_caps, init_vars, counter_vars, fence_vars, main_vars, core_vars,
                   wdflag_vars, wd_vars, pause_vars, tick_vars, now_us>>

\* glTexImage2D(..., new_width, new_height, ...)
resize_texture ==
    /\ ResizeStep("resize_tex", "resize_rb")
    /\ tex_storage' = <<r_w, r_h>>
    /\ UNCHANGED <<s_shared_texture, s_rsx_fbo, s_depth_stencil_rb, s_shared_texture_width,
                   s_shared_texture_height, s_rsx_resources_created, rb_storage>>
    /\ UNCHANGED <<mainfbo_vars, h_sizes>>

\* glRenderbufferStorage(..., new_width, new_height)
resize_renderbuffer ==
    /\ ResizeStep("resize_rb", "resize_w")
    /\ rb_storage' = <<r_w, r_h>>
    /\ UNCHANGED <<s_shared_texture, s_rsx_fbo, s_depth_stencil_rb, s_shared_texture_width,
                   s_shared_texture_height, s_rsx_resources_created, tex_storage>>
    /\ UNCHANGED <<mainfbo_vars, h_sizes>>

\* s_shared_texture_width = new_width
resize_store_width ==
    /\ ResizeStep("resize_w", "resize_h")
    /\ s_shared_texture_width' = r_w
    /\ UNCHANGED <<s_shared_texture, s_rsx_fbo, s_depth_stencil_rb, s_shared_texture_height,
                   s_rsx_resources_created, tex_storage, rb_storage>>
    /\ UNCHANGED <<mainfbo_vars, h_sizes>>

\* s_shared_texture_height = new_height
resize_store_height ==
    /\ ResizeStep("resize_h", "resize_flag")
    /\ s_shared_texture_height' = r_h
    /\ h_sizes' = h_sizes \cup {<<r_w, r_h>>}
    /\ UNCHANGED <<s_shared_texture, s_rsx_fbo, s_depth_stencil_rb, s_shared_texture_width,
                   s_rsx_resources_created, tex_storage, rb_storage>>
    /\ UNCHANGED mainfbo_vars

\* s_main_fbo_created = false
resize_clear_flag ==
    /\ ResizeStep("resize_flag", "idle")
    /\ s_main_fbo_created' = FALSE
    /\ h_resizes' = h_resizes + 1
    /\ UNCHANGED <<s_main_read_fbo, fbo_gen, h_fbo_resizes>>
    /\ UNCHANGED <<tex_vars, h_sizes>>

\* ------------------------------------------------ host main thread: retro_run
\* retro_run entry: the game_loaded guard and the watchdog timestamp.
\* max_ticks bounds the number of ticks of a run of the model.
retro_run_enter(max_ticks) ==
    /\ m_pc = "idle"
    /\ ~terminated
    /\ h_ticks < max_ticks
    /\ IF ~game_loaded
       THEN UNCHANGED <<main_vars, tick_vars>>
       ELSE /\ m_pc' = "input"
            /\ m_in_run' = TRUE
            /\ h_trace' = <<>>
            /\ s_last_retro_run_us' = now_us
            /\ h_ticks' = h_ticks + 1
            /\ h_tick_us' = now_us
            /\ h_crossings' = h_crossings +
                   (IF now_us - h_tick_us > pause_threshold_us THEN 1 ELSE 0)
            /\ h_cross_tick' = (IF now_us - h_tick_us > pause_threshold_us
                                THEN h_ticks + 1 ELSE h_cross_tick)
            /\ h_gaps_ok' = (h_gaps_ok /\ (h_crossings = 0 \/
                   (now_us - h_tick_us > resume_threshold_us /\
                    now_us - h_tick_us < pause_threshold_us)))
            /\ UNCHANGED <<m_fence, m_result, m_has_new_frame, m_count, m_w, m_h, blit_calls>>
    /\ UNCHANGED <<audio_vars, ctx_vars, hw_vars, ring_vars, wait_vars, gl_caps, init_vars, counter_vars, fence_vars, tex_vars, mainfbo_vars,
                   render_vars, hist_vars, core_vars, wdflag_vars, wd_vars, pause_vars,
                   now_us>>

\* A step of the main thread that changes its program counter only
MainStep(from, to) ==
    /\ m_pc = from
    /\ h_trace' = Append(h_trace, m_pc)
    /\ m_pc' = to
    /\ UNCHANGED <<m_fence, m_result, m_has_new_frame, m_count, m_w, m_h, m_in_run,
                   blit_calls>>
    /\ UNCHANGED <<audio_vars, ctx_vars, hw_vars, ring_vars, wait_vars, gl_caps, init_vars, counter_vars, fence_vars, tex_vars, mainfbo_vars,
                   render_vars, hist_vars, core_vars, wdflag_vars, wd_vars, pause_vars,
                   tick_vars, now_us>>

\* input_poll_cb(); libretro_input_poll(input_state_cb)
retro_run_input == MainStep("input", "pads")
\* g_libretro_pad_handler->process(); g_libretro_pad_thread->apply_copilots()
retro_run_pads == MainStep("pads", "audio")
\* libretro_audio_process(audio_batch_cb) from call to return, where no other
\* thread uses the audio backend
retro_run_audio == MainStep("audio", "cleanup")

\* A step of the main thread inside libretro_audio_process.  Of the positions
\* inside that call h_trace keeps the failed lock attempt only.  What h_drain
\* keeps is left to the specification.
AudioStep(from, to, holder, count) ==
    /\ m_pc = from
    /\ h_trace' = (IF from \in {"audio", "lock_timeout"} THEN Append(h_trace, m_pc)
                   ELSE h_trace)
    /\ m_pc' = to
    /\ m_mutex' = holder
    /\ batch' = count
    /\ UNCHANGED <<m_fence, m_result, m_has_new_frame, m_count, m_w, m_h, m_in_run,
                   blit_calls>>
    /\ UNCHANGED <<ctx_vars, hw_vars, ring_vars, wait_vars, gl_caps, init_vars, counter_vars, fence_vars, tex_vars,
                   mainfbo_vars, render_vars, hist_vars, core_vars, wdflag_vars, wd_vars,
                   pause_vars, tick_vars, now_us>>

\* libretro_audio_process up to its loop: nothing to do without a sink or backend
libretro_audio_process(has_backend) ==
    AudioStep("audio", IF has_backend THEN "get_samples" ELSE "cleanup", m_mutex, 0)

\* Mutant of try_lock_for: m_mutex.lock(), which waits for the holder
try_lock_for_untimed(holder) == IF holder = "free" THEN {TRUE} ELSE {}

\* lock.try_lock_for(100 us) on a std::timed_mutex: what it can return.  It
\* gives up when the time is over and may fail even on a free mutex.
try_lock_for(holder) == IF holder = "free" THEN {TRUE, FALSE} ELSE {FALSE}

\* GetSamples, its guard: returns 0 when the backend is not playing or not
\* initialized (two atomic loads), which ends the loop
GetSamples(active) ==
    IF active
    THEN AudioStep("get_samples", "try_lock", m_mutex, batch)
    ELSE AudioStep("get_samples", "cleanup", m_mutex, 0)

\* GetSamples, its lock attempt: lock.try_lock_for(std::chrono::microseconds(100))
GetSamples_try_lock ==
    \E acquired \in try_lock_for(m_mutex) :
        IF acquired
        THEN AudioStep("try_lock", "samples", "main", batch)
        ELSE AudioStep("try_lock", "lock_timeout", m_mutex, batch)

\* GetSamples returns 0 after the failed lock attempt, which ends the loop
GetSamples_lock_timeout == AudioStep("lock_timeout", "cleanup", m_mutex, 0)

\* GetSamples under the lock returns frames; audio_batch_cb takes them; the
\* loop goes on after a full batch while batch < MAX_BATCHES
\* Mutant of LoopEnds: the loop goes on after a short batch
LoopEnds_at_limit_only(frames, count) == count + 1 >= MAX_BATCHES

\* if (frames < FRAMES_PER_BATCH) break; and the loop condition after batch++
LoopEnds(frames, count) == frames < FRAMES_PER_BATCH \/ count + 1 >= MAX_BATCHES

\* if (frames > 0) audio_batch_cb(buffer, frames)
Forwards(frames) == frames > 0

\* One GetSamples(buffer, FRAMES_PER_BATCH) call of the loop as h_drain keeps it
Drained(frames) ==
    [asked |-> FRAMES_PER_BATCH, frames |-> frames, forwarded |-> Forwards(frames)]

GetSamples_return(frames) ==
    IF LoopEnds(frames, batch)
    THEN AudioStep("samples", "cleanup", "free", 0)
    ELSE AudioStep("samples", "get_samples", "free", batch + 1)

\* Open, Close, SetWriteCallback or SetStateCallback on the emulator's audio
\* thread: std::lock_guard lock(m_mutex), held for as long as that thread likes
AudioBackendFrame ==
    UNCHANGED <<batch, h_drain, ctx_vars, hw_vars, ring_vars, wait_vars, gl_caps, init_vars, counter_vars, fence_vars, tex_vars,
                mainfbo_vars, render_vars, main_vars, hist_vars, core_vars, wdflag_vars,
                wd_vars, pause_vars, tick_vars, now_us>>

audio_backend_lock ==
    /\ m_mutex = "free"
    /\ m_mutex' = "emu"
    /\ AudioBackendFrame

audio_backend_unlock ==
    /\ m_mutex = "emu"
    /\ m_mutex' = "free"
    /\ AudioBackendFrame

\* ------------------------------------- LibretroAudioBackend: the ring buffer
\* What no member function of the backend changes
RingFrame ==
    UNCHANGED <<batch, h_drain, ctx_vars, hw_vars, wait_vars, gl_caps, init_vars,
                counter_vars, fence_vars, tex_vars, mainfbo_vars, render_vars, main_vars,
                hist_vars, core_vars, wdflag_vars, wd_vars, pause_vars, tick_vars, now_us>>

\* Sampling rates, channel counts and sample sizes (s16, float) Open is
\* called with; the rates are scaled down with the ring
Freqs == {5, 6}
ChannelCounts == {1, 2}
SampleSizes == {2, 4}

\* Open under std::lock_guard lock(m_mutex): a ring of half a second, empty
Open(freq, sample_size, ch_cnt) ==
    /\ m_mutex = "free"
    /\ m_sample_size' = sample_size
    /\ m_channels' = ch_cnt
    /\ m_ring_buffer_bytes' = (freq * ch_cnt * sample_size) \div 2
    /\ m_ring_read_pos' = 0
    /\ m_ring_write_pos' = 0
    /\ m_ring_size' = 0
    /\ m_initialized' = TRUE
    /\ UNCHANGED <<m_playing, m_write_callback, b_pc, b_max_frames, b_pulls, m_mutex>>
    /\ RingFrame

\* Close under std::lock_guard lock(m_mutex)
Close ==
    /\ m_mutex = "free"
    /\ m_playing' = FALSE
    /\ m_initialized' = FALSE
    /\ m_ring_buffer_bytes' = 0
    /\ m_ring_read_pos' = 0
    /\ m_ring_write_pos' = 0
    /\ m_ring_size' = 0
    /\ UNCHANGED <<m_write_callback, m_channels, m_sample_size, b_pc, b_max_frames,
                   b_pulls, m_mutex>>
    /\ RingFrame

\* SetWriteCallback(cb) under std::lock_guard lock(m_mutex)
SetWriteCallback(cb) ==
    /\ m_mutex = "free"
    /\ m_write_callback' = cb
    /\ UNCHANGED <<m_initialized, m_playing, m_channels, m_sample_size,
                   m_ring_buffer_bytes, m_ring_read_pos, m_ring_write_pos, m_ring_size,
                   b_pc, b_max_frames, b_pulls, m_mutex>>
    /\ RingFrame

\* Play() and Pause(): m_playing = true / false, without the mutex
SetPlaying(playing) ==
    /\ m_playing' = playing
    /\ UNCHANGED <<m_initialized, m_write_callback, m_channels, m_sample_size,
                   m_ring_buffer_bytes, m_ring_read_pos, m_ring_write_pos, m_ring_size,
                   b_pc, b_max_frames, b_pulls, m_mutex>>
    /\ RingFrame

\* A step of the GetSamples caller that leaves the ring alone
RingCallerStep(to, holder) ==
    /\ b_pc' = to
    /\ m_mutex' = holder
    /\ UNCHANGED <<m_initialized, m_playing, m_write_callback, m_channels, m_sample_size,
                   m_ring_buffer_bytes, m_ring_read_pos, m_ring_write_pos, m_ring_size>>
    /\ RingFrame

\* GetSamples(buffer, max_frames): if (!m_playing || !m_initialized) return 0;
GetSamples_guard(max_frames) ==
    /\ b_pc = "idle"
    /\ b_max_frames' = max_frames
    /\ b_pulls' = 0
    /\ RingCallerStep(IF ~m_playing \/ ~m_initialized THEN "idle" ELSE "lock", m_mutex)

\* if (!lock.try_lock_for(100 us)) return 0;
GetSamples_lock ==
    /\ b_pc = "lock"
    /\ UNCHANGED <<b_max_frames, b_pulls>>
    /\ \E acquired \in try_lock_for(m_mutex) :
          IF acquired THEN RingCallerStep("pull", "main")
          ELSE RingCallerStep("idle", m_mutex)

\* channels * sample_size
bytes_per_frame == m_channels * m_sample_size

\* PULL_FRAMES * bytes_per_frame
pull_bytes == PullFrames * bytes_per_frame

\* for (int pulls = 0; pulls < 4; pulls++)
MaxPulls == 4

\* Mutant of RingAdvance: the position is not reset when it reaches the end
\* of the buffer
RingAdvance_no_reset(pos, n, size) ==
    IF pos + n <= size THEN pos + n ELSE n - (size - pos)

\* The ring position after n more bytes: contiguous (back to 0 at the end of
\* the buffer) or wrapped around
RingAdvance(pos, n, size) ==
    IF pos + n <= size
    THEN (IF pos + n >= size THEN 0 ELSE pos + n)
    ELSE n - (size - pos)

\* One turn of the pull loop; the write callback, asked for pull_bytes,
\* returns bytes_written
GetSamples_pull(bytes_written) ==
    /\ b_pc = "pull"
    /\ IF /\ m_write_callback
          /\ b_pulls < MaxPulls
          /\ m_ring_buffer_bytes - m_ring_size >= pull_bytes
          /\ bytes_written # 0
       THEN /\ m_ring_write_pos' =
                   RingAdvance(m_ring_write_pos, bytes_written, m_ring_buffer_bytes)
            /\ m_ring_size' = m_ring_size + bytes_written
            /\ b_pulls' = b_pulls + 1
            /\ b_pc' = "pull"
       ELSE /\ UNCHANGED <<m_ring_write_pos, m_ring_size, b_pulls>>
            /\ b_pc' = "read"
    /\ UNCHANGED <<m_initialized, m_playing, m_write_callback, m_channels, m_sample_size,
                   m_ring_buffer_bytes, m_ring_read_pos, b_max_frames, m_mutex>>
    /\ RingFrame

\* std::min(max_frames, m_ring_size / bytes_per_frame)
frames_available ==
    IF b_max_frames <= m_ring_size \div bytes_per_frame THEN b_max_frames
    ELSE m_ring_size \div bytes_per_frame

\* The read of frames_available frames out of the ring; the caller returns
\* and the unique_lock's scope ends
GetSamples_read ==
    /\ b_pc = "read"
    /\ LET bytes_to_read == frames_available * bytes_per_frame
       IN IF frames_available = 0
          THEN UNCHANGED <<m_ring_read_pos, m_ring_size>>
          ELSE /\ m_ring_read_pos' =
                      RingAdvance(m_ring_read_pos, bytes_to_read, m_ring_buffer_bytes)
               /\ m_ring_size' = m_ring_size - bytes_to_read
    /\ b_pc' = "idle"
    /\ m_mutex' = "free"
    /\ UNCHANGED <<m_initialized, m_playing, m_write_callback, m_channels, m_sample_size,
                   m_ring_buffer_bytes, m_ring_write_pos, b_max_frames, b_pulls>>
    /\ RingFrame

\* Mutant of retro_run_cleanup: retro_run goes on without the fence wait
retro_run_cleanup_skips_fence == MainStep("cleanup", "has_new")

\* libretro_cleanup_gl_state(); next is libretro_wait_for_present_fence()
retro_run_cleanup == MainStep("cleanup", "fence")

\* Mutant of SlotAfterTake: the consumer reads the slot and leaves the fence
\* in it
SlotAfterTake_load_only(fence) == fence

\* What s_present_fence.exchange(nullptr) leaves in the slot
SlotAfterTake(fence) == 0

\* libretro_wait_for_present_fence up to the glClientWaitSync call:
\* GLsync fence = s_present_fence.exchange(nullptr)
wait_fence_take ==
    /\ m_pc = "fence"
    /\ h_trace' = Append(h_trace, m_pc)
    /\ IF ~s_gl_initialized
       THEN /\ m_pc' = "has_new"
            /\ UNCHANGED <<s_present_fence, m_fence, h_taken>>
       ELSE /\ s_present_fence' = SlotAfterTake(s_present_fence)
            /\ h_taken' = h_taken \cup ({s_present_fence} \ {0})
            /\ IF s_present_fence = 0 \/ ~glClientWaitSync \/ ~glDeleteSync
               THEN m_pc' = "has_new" /\ UNCHANGED m_fence
               ELSE m_pc' = "client_wait" /\ m_fence' = s_present_fence
    /\ UNCHANGED <<s_present_fence_counter, fence_st>>
    /\ UNCHANGED <<m_result, m_has_new_frame, m_count, m_w, m_h, m_in_run, blit_calls>>
    /\ UNCHANGED <<h_last_installed, h_waited, h_frame_fence, h_seen_count, h_sizes,
                   h_blit_size, h_blit_count, h_video_cb>>
    /\ UNCHANGED <<audio_vars, ctx_vars, hw_vars, ring_vars, wait_vars, gl_caps, init_vars, counter_vars, tex_vars, mainfbo_vars, render_vars,
                   core_vars, wdflag_vars, wd_vars, pause_vars, tick_vars, now_us>>

\* Mutant of AfterWait: a wait that timed out or failed gives the frame up
AfterWait_timeout_skips(result) ==
    IF result \in {"GL_TIMEOUT_EXPIRED", "GL_WAIT_FAILED"} THEN "video_cb_null"
    ELSE "delete_sync"

\* Where libretro_wait_for_present_fence goes on after glClientWaitSync: the
\* result is counted and logged only
AfterWait(result) == "delete_sync"

\* GLenum result = glClientWaitSync(fence, GL_SYNC_FLUSH_COMMANDS_BIT, timeout_ns)
wait_fence_client_wait(result) ==
    /\ m_pc = "client_wait"
    /\ h_trace' = Append(h_trace, m_pc)
    /\ m_result' = result
    /\ h_waited' = h_waited \cup {m_fence}
    /\ UNCHANGED h_taken
    /\ m_pc' = AfterWait(result)
    /\ UNCHANGED <<m_fence, m_has_new_frame, m_count, m_w, m_h, m_in_run, blit_calls>>
    /\ UNCHANGED <<h_last_installed, h_frame_fence, h_seen_count, h_sizes, h_blit_size, h_blit_count,
                   h_video_cb>>
    /\ UNCHANGED <<audio_vars, ctx_vars, hw_vars, ring_vars, wait_vars, gl_caps, init_vars, counter_vars, fence_vars, tex_vars, mainfbo_vars,
                   render_vars, core_vars, wdflag_vars, wd_vars, pause_vars, tick_vars,
                   now_us>>

\* glDeleteSync(fence), whatever the result was
wait_fence_delete ==
    /\ m_pc = "delete_sync"
    /\ h_trace' = Append(h_trace, m_pc)
    /\ fence_st' = DeleteSync(m_fence)
    /\ m_fence' = 0
    /\ m_pc' = "has_new"
    /\ UNCHANGED <<s_present_fence, s_present_fence_counter>>
    /\ UNCHANGED <<m_result, m_has_new_frame, m_count, m_w, m_h, m_in_run, blit_calls>>
    /\ UNCHANGED <<audio_vars, ctx_vars, hw_vars, ring_vars, wait_vars, gl_caps, init_vars, counter_vars, tex_vars, mainfbo_vars, render_vars,
                   hist_vars, core_vars, wdflag_vars, wd_vars, pause_vars, tick_vars, now_us>>

\* Mutant of PresentPath: retro_run blits and presents whatever has_new_frame is
PresentPath_always_blit(has_new_frame) == "blit"

\* if (has_new_frame) { libretro_blit_to_frontend(); ... } else { video_cb(NULL, ...) }
PresentPath(has_new_frame) == IF has_new_frame THEN "blit" ELSE "video_cb_null"

\* const bool has_new_frame = libretro_has_new_frame()
retro_run_has_new_frame ==
    /\ m_pc = "has_new"
    /\ h_trace' = Append(h_trace, m_pc)
    /\ m_has_new_frame' = libretro_has_new_frame
    /\ h_seen_count' = s_frame_count
    /\ m_pc' = PresentPath(libretro_has_new_frame)
    /\ UNCHANGED <<m_fence, m_result, m_count, m_w, m_h, m_in_run, blit_calls>>
    /\ UNCHANGED <<h_last_installed, h_waited, h_taken, h_frame_fence, h_sizes, h_blit_size, h_blit_count,
                   h_video_cb>>
    /\ UNCHANGED <<audio_vars, ctx_vars, hw_vars, ring_vars, wait_vars, gl_caps, init_vars, counter_vars, fence_vars, tex_vars, mainfbo_vars,
                   render_vars, core_vars, wdflag_vars, wd_vars, pause_vars, tick_vars,
                   now_us>>

\* libretro_blit_to_frontend() called on its own (outside retro_run)
libretro_blit_to_frontend ==
    /\ m_pc = "idle"
    /\ blit_calls < MaxBlits
    /\ blit_calls' = blit_calls + 1
    /\ m_in_run' = FALSE
    /\ h_trace' = <<>>
    /\ m_pc' = "blit"
    /\ UNCHANGED <<m_fence, m_result, m_has_new_frame, m_count, m_w, m_h>>
    /\ UNCHANGED <<audio_vars, ctx_vars, hw_vars, ring_vars, wait_vars, gl_caps, init_vars, counter_vars, fence_vars, tex_vars, mainfbo_vars,
                   render_vars, hist_vars, core_vars, wdflag_vars, wd_vars, pause_vars,
                   tick_vars, now_us>>

\* Where libretro_blit_to_frontend returns to
BlitReturn == IF m_in_run THEN "video_cb_valid" ELSE "idle"

\* Mutant of BlitGuardFails: the guard does not look at s_rsx_resources_created
BlitGuardFails_ignores_resources == ~s_gl_initialized \/ ~s_get_current_framebuffer

\* !s_gl_initialized || !s_rsx_resources_created.load() || !s_get_current_framebuffer
BlitGuardFails ==
    ~s_gl_initialized \/ ~s_rsx_resources_created \/ ~s_get_current_framebuffer

\* if (<guard fails>) return;  if (!s_main_fbo_created.load()) create_main_read_fbo();
blit_guard ==
    MainStep("blit",
             IF BlitGuardFails
             THEN BlitReturn
             ELSE IF ~s_main_fbo_created THEN "make_fbo" ELSE "check_fbo")

\* create_main_read_fbo: the guard, glGenFramebuffers and the attachment
create_main_read_fbo ==
    /\ m_pc = "make_fbo"
    /\ h_trace' = Append(h_trace, m_pc)
    /\ IF s_main_fbo_created \/ s_shared_texture = 0
       THEN m_pc' = "check_fbo" /\ UNCHANGED <<s_main_read_fbo, fbo_gen, h_fbo_resizes>>
       ELSE /\ s_main_read_fbo' = fbo_gen + 1
            /\ fbo_gen' = fbo_gen + 1
            /\ h_fbo_resizes' = h_resizes
            /\ m_pc' = "make_fbo_done"
    /\ UNCHANGED <<s_main_fbo_created, h_resizes>>
    /\ UNCHANGED <<m_fence, m_result, m_has_new_frame, m_count, m_w, m_h, m_in_run,
                   blit_calls>>
    /\ UNCHANGED <<audio_vars, ctx_vars, hw_vars, ring_vars, wait_vars, gl_caps, init_vars, counter_vars, fence_vars, tex_vars, render_vars,
                   hist_vars, core_vars, wdflag_vars, wd_vars, pause_vars, tick_vars, now_us>>

\* create_main_read_fbo: s_main_fbo_created = true
create_main_read_fbo_done ==
    /\ m_pc = "make_fbo_done"
    /\ h_trace' = Append(h_trace, m_pc)
    /\ s_main_fbo_created' = TRUE
    /\ m_pc' = "check_fbo"
    /\ UNCHANGED <<s_main_read_fbo, fbo_gen, h_resizes, h_fbo_resizes>>
    /\ UNCHANGED <<m_fence, m_result, m_has_new_frame, m_count, m_w, m_h, m_in_run,
                   blit_calls>>
    /\ UNCHANGED <<audio_vars, ctx_vars, hw_vars, ring_vars, wait_vars, gl_caps, init_vars, counter_vars, fence_vars, tex_vars, render_vars,
                   hist_vars, core_vars, wdflag_vars, wd_vars, pause_vars, tick_vars, now_us>>

\* if (s_main_read_fbo == 0) return;
blit_check_fbo ==
    MainStep("check_fbo", IF s_main_read_fbo = 0 THEN BlitReturn ELSE "read_width")

\* the read of s_shared_texture_width for glBlitFramebuffer
blit_read_width ==
    /\ m_pc = "read_width"
    /\ h_trace' = Append(h_trace, m_pc)
    /\ m_w' = s_shared_texture_width
    /\ m_pc' = "read_height"
    /\ UNCHANGED <<m_fence, m_result, m_has_new_frame, m_count, m_h, m_in_run, blit_calls>>
    /\ UNCHANGED <<audio_vars, ctx_vars, hw_vars, ring_vars, wait_vars, gl_caps, init_vars, counter_vars, fence_vars, tex_vars, mainfbo_vars,
                   render_vars, hist_vars, core_vars, wdflag_vars, wd_vars, pause_vars,
                   tick_vars, now_us>>

\* the read of s_shared_texture_height for glBlitFramebuffer
blit_read_height ==
    /\ m_pc = "read_height"
    /\ h_trace' = Append(h_trace, m_pc)
    /\ m_h' = s_shared_texture_height
    /\ m_pc' = "do_blit"
    /\ UNCHANGED <<m_fence, m_result, m_has_new_frame, m_count, m_w, m_in_run, blit_calls>>
    /\ UNCHANGED <<audio_vars, ctx_vars, hw_vars, ring_vars, wait_vars, gl_caps, init_vars, counter_vars, fence_vars, tex_vars, mainfbo_vars,
                   render_vars, hist_vars, core_vars, wdflag_vars, wd_vars, pause_vars,
                   tick_vars, now_us>>

\* glBlitFramebuffer(0, 0, w, h, 0, 0, w, h, ...): the read of the shared render target
blit_do ==
    /\ m_pc = "do_blit"
    /\ h_trace' = Append(h_trace, m_pc)
    /\ h_blit_size' = <<m_w, m_h>>
    /\ h_blit_count' = s_frame_count
    /\ m_pc' = BlitReturn
    /\ UNCHANGED <<m_fence, m_result, m_has_new_frame, m_count, m_w, m_h, m_in_run,
                   blit_calls>>
    /\ UNCHANGED <<h_last_installed, h_waited, h_taken, h_frame_fence, h_seen_count, h_sizes,
                   h_video_cb>>
    /\ UNCHANGED <<audio_vars, ctx_vars, hw_vars, ring_vars, wait_vars, gl_caps, init_vars, counter_vars, fence_vars, tex_vars, mainfbo_vars,
                   render_vars, core_vars, wdflag_vars, wd_vars, pause_vars, tick_vars,
                   now_us>>

\* video_cb(data, 1280, 720, 0)
VideoCb(from, data, to) ==
    /\ m_pc = from
    /\ h_trace' = Append(h_trace, m_pc)
    /\ h_video_cb' = data
    /\ m_pc' = to
    /\ m_in_run' = (to # "idle")
    /\ UNCHANGED <<m_fence, m_result, m_has_new_frame, m_count, m_w, m_h, blit_calls>>
    /\ UNCHANGED <<h_last_installed, h_waited, h_taken, h_frame_fence, h_seen_count, h_sizes,
                   h_blit_size, h_blit_count>>
    /\ UNCHANGED <<audio_vars, ctx_vars, hw_vars, ring_vars, wait_vars, gl_caps, init_vars, counter_vars, fence_vars, tex_vars, mainfbo_vars,
                   render_vars, core_vars, wdflag_vars, wd_vars, pause_vars, tick_vars,
                   now_us>>

\* video_cb(RETRO_HW_FRAME_BUFFER_VALID, 1280, 720, 0)
retro_run_video_cb_valid == VideoCb("video_cb_valid", "RETRO_HW_FRAME_BUFFER_VALID", "mark_load")
\* video_cb(NULL, 1280, 720, 0); retro_run returns
retro_run_video_cb_null == VideoCb("video_cb_null", "NULL", "idle")

\* libretro_mark_frame_presented: s_frame_count.load()
mark_frame_presented_load ==
    /\ m_pc = "mark_load"
    /\ h_trace' = Append(h_trace, m_pc)
    /\ m_count' = s_frame_count
    /\ m_pc' = "mark_store"
    /\ UNCHANGED <<m_fence, m_result, m_has_new_frame, m_w, m_h, m_in_run, blit_calls>>
    /\ UNCHANGED <<audio_vars, ctx_vars, hw_vars, ring_vars, wait_vars, gl_caps, init_vars, counter_vars, fence_vars, tex_vars, mainfbo_vars,
                   render_vars, hist_vars, core_vars, wdflag_vars, wd_vars, pause_vars,
                   tick_vars, now_us>>

\* Mutant of PresentedValue: counts the presented frame instead of taking the snapshot
PresentedValue_plus_one(count) == count + 1

\* The value libretro_mark_frame_presented stores, given the count it loaded
PresentedValue(count) == count

\* libretro_mark_frame_presented: the store to s_last_presented_frame; retro_run returns
mark_frame_presented_store ==
    /\ m_pc = "mark_store"
    /\ h_trace' = Append(h_trace, m_pc)
    /\ s_last_presented_frame' = PresentedValue(m_count)
    /\ m_pc' = "idle"
    /\ m_in_run' = FALSE
    /\ UNCHANGED <<s_frame_ready, s_frame_count>>
    /\ UNCHANGED <<m_fence, m_result, m_has_new_frame, m_count, m_w, m_h, blit_calls>>
    /\ UNCHANGED <<audio_vars, ctx_vars, hw_vars, ring_vars, wait_vars, gl_caps, init_vars, fence_vars, tex_vars, mainfbo_vars, render_vars,
                   hist_vars, core_vars, wdflag_vars, wd_vars, pause_vars, tick_vars, now_us>>

\* ------------------------------------------------------------ the emulator
\* Emulator state machine as far as the bridge drives it (class Emulator is
\* not part of these sources).
Emu_IsRunning == emu_state = "running"
Emu_IsPaused == emu_state = "paused"
Emu_Pause(state) == IF state = "running" THEN "paused" ELSE state
Emu_Resume(state) == IF state = "paused" THEN "running" ELSE state

\* Who owns the pause after caller's Emu.Pause / after anybody's Emu.Resume
OwnerAfterPause(caller) == IF emu_state = "running" THEN caller ELSE h_pause_owner
OwnerAfterResume == IF emu_state = "paused" THEN "none" ELSE h_pause_owner

\* ------------------------------------------------- the pause watchdog thread
\* What no step of a watchdog thread changes
WatchdogFrame ==
    /\ UNCHANGED <<audio_vars, ctx_vars, hw_vars, ring_vars, wait_vars, gl_caps, init_vars, counter_vars, fence_vars, tex_vars, mainfbo_vars,
                   render_vars, main_vars, hist_vars, core_vars, wdflag_vars, tick_vars,
                   now_us>>

\* A step of watchdog thread t that changes its program counter only
WatchdogStep(t, from, to) ==
    /\ wd_pc[t] = from
    /\ wd_pc' = [wd_pc EXCEPT ![t] = to]
    /\ WatchdogFrame

\* std::this_thread::sleep_for(10ms): the thread is not scheduled before then
SleepUntil(t) == [wd_wake EXCEPT ![t] = now_us + sleep_us]

\* Mutant of watchdog_loop_head: the loop condition does not look at the stop
\* flag
watchdog_loop_head_ignores_stop(t) ==
    /\ WatchdogStep(t, "head", "check_loaded")
    /\ UNCHANGED <<wd_now, wd_last, wd_wake, pause_vars>>

\* while (!s_pause_watchdog_stop.load())
watchdog_loop_head(t) ==
    /\ WatchdogStep(t, "head", IF s_pause_watchdog_stop THEN "done" ELSE "check_loaded")
    /\ UNCHANGED <<wd_now, wd_last, wd_wake, pause_vars>>

\* if (!core_initialized || !game_loaded) { sleep; continue; }
watchdog_check_loaded(t) ==
    /\ WatchdogStep(t, "check_loaded",
                    IF ~core_initialized \/ ~game_loaded THEN "sleeping" ELSE "sample_now")
    /\ wd_wake' = (IF ~core_initialized \/ ~game_loaded THEN SleepUntil(t) ELSE wd_wake)
    /\ UNCHANGED <<wd_now, wd_last, pause_vars>>

\* const long long now_us = lr_now_us()
watchdog_sample_now(t) ==
    /\ WatchdogStep(t, "sample_now", "sample_last")
    /\ wd_now' = [wd_now EXCEPT ![t] = now_us]
    /\ UNCHANGED <<wd_last, wd_wake, pause_vars>>

\* const long long last_us = s_last_retro_run_us.load(); if (last_us == 0) ...
watchdog_sample_last(t) ==
    /\ WatchdogStep(t, "sample_last",
                    IF s_last_retro_run_us = 0 THEN "sleeping" ELSE "decide")
    /\ wd_last' = [wd_last EXCEPT ![t] = s_last_retro_run_us]
    /\ wd_wake' = (IF s_last_retro_run_us = 0 THEN SleepUntil(t) ELSE wd_wake)
    /\ UNCHANGED <<wd_now, pause_vars>>

\* const long long gap_us = now_us - last_us
gap_us(t) == wd_now[t] - wd_last[t]

\* Mutant of WantsPause: the pause branch compares against the resume threshold
WantsPause_low_threshold(t) ==
    gap_us(t) > resume_threshold_us /\ ~s_paused_by_watchdog /\ Emu_IsRunning

\* Mutant of WantsResume: the resume branch tests Emu.IsRunning() as the pause
\* branch does
WantsResume_checks_running(t) ==
    /\ ~(gap_us(t) > pause_threshold_us)
    /\ gap_us(t) < resume_threshold_us /\ s_paused_by_watchdog /\ Emu_IsRunning

\* gap_us > pause_threshold_us && !s_paused_by_watchdog.load() && Emu.IsRunning()
WantsPause(t) ==
    gap_us(t) > pause_threshold_us /\ ~s_paused_by_watchdog /\ Emu_IsRunning

\* else branch: gap_us < resume_threshold_us && s_paused_by_watchdog.load()
\* && Emu.IsPaused()
WantsResume(t) ==
    /\ ~(gap_us(t) > pause_threshold_us)
    /\ gap_us(t) < resume_threshold_us /\ s_paused_by_watchdog /\ Emu_IsPaused

\* The two if statements on gap_us
watchdog_decide(t) ==
    /\ WatchdogStep(t, "decide",
                    IF WantsPause(t) THEN "do_pause"
                    ELSE IF WantsResume(t) THEN "do_resume" ELSE "sleeping")
    /\ wd_wake' = (IF WantsPause(t) \/ WantsResume(t) THEN wd_wake ELSE SleepUntil(t))
    /\ UNCHANGED <<wd_now, wd_last, pause_vars>>

\* Emu.Pause(false, false)
watchdog_pause(t) ==
    /\ WatchdogStep(t, "do_pause", "store_paused")
    /\ emu_state' = Emu_Pause(emu_state)
    /\ h_pause_owner' = OwnerAfterPause("watchdog")
    /\ h_pauses' = h_pauses + 1
    /\ h_pause_tick' = h_ticks
    /\ UNCHANGED <<wd_now, wd_last, wd_wake>>
    /\ UNCHANGED <<s_paused_by_watchdog, h_resumes, h_resume_tick, other_calls>>

\* s_paused_by_watchdog.store(true), then the sleep that ends the iteration
watchdog_store_paused(t) ==
    /\ WatchdogStep(t, "store_paused", "sleeping")
    /\ s_paused_by_watchdog' = TRUE
    /\ wd_wake' = SleepUntil(t)
    /\ UNCHANGED <<wd_now, wd_last>>
    /\ UNCHANGED <<emu_state, h_pauses, h_resumes, h_pause_owner, h_pause_tick,
                   h_resume_tick, other_calls>>

\* Emu.Resume()
watchdog_resume(t) ==
    /\ WatchdogStep(t, "do_resume", "store_resumed")
    /\ emu_state' = Emu_Resume(emu_state)
    /\ h_pause_owner' = OwnerAfterResume
    /\ h_resumes' = h_resumes + 1
    /\ h_resume_tick' = h_ticks
    /\ UNCHANGED <<wd_now, wd_last, wd_wake>>
    /\ UNCHANGED <<s_paused_by_watchdog, h_pauses, h_pause_tick, other_calls>>

\* s_paused_by_watchdog.store(false), then the sleep that ends the iteration
watchdog_store_resumed(t) ==
    /\ WatchdogStep(t, "store_resumed", "sleeping")
    /\ s_paused_by_watchdog' = FALSE
    /\ wd_wake' = SleepUntil(t)
    /\ UNCHANGED <<wd_now, wd_last>>
    /\ UNCHANGED <<emu_state, h_pauses, h_resumes, h_pause_owner, h_pause_tick,
                   h_resume_tick, other_calls>>

\* The sleep is over: back to the loop condition
watchdog_wake(t) ==
    /\ now_us >= wd_wake[t]
    /\ WatchdogStep(t, "sleeping", "head")
    /\ UNCHANGED <<wd_now, wd_last, wd_wake, pause_vars>>

Watchdog(t) ==
    \/ watchdog_loop_head(t)
    \/ watchdog_check_loaded(t)
    \/ watchdog_sample_now(t)
    \/ watchdog_sample_last(t)
    \/ watchdog_decide(t)
    \/ watchdog_pause(t)
    \/ watchdog_store_paused(t)
    \/ watchdog_resume(t)
    \/ watchdog_store_resumed(t)
    \/ watchdog_wake(t)

\* ------------------------------------------------- the life cycle (main thread)
emu_vars == <<emu_state, h_pause_owner>>
wd_hist == <<h_pauses, h_resumes, h_pause_tick, h_resume_tick, other_calls>>

\* What no life-cycle step changes
LifecycleFrame ==
    /\ UNCHANGED <<m_fence, m_result, m_has_new_frame, m_count, m_w, m_h, m_in_run,
                   blit_calls, h_trace>>
    /\ UNCHANGED <<audio_vars, ring_vars, wait_vars, gl_caps, counter_vars, fence_vars, tex_vars, mainfbo_vars, render_vars,
                   hist_vars, wd_now, wd_last, wd_wake, wd_hist, now_us>>
    /\ UNCHANGED <<h_ticks, h_tick_us, h_crossings, h_gaps_ok, h_cross_tick>>

\* The host enters a life-cycle call
HostCallFrame ==
    /\ m_pc = "idle"
    /\ ~terminated
    /\ host_calls < MaxCalls
    /\ host_calls' = host_calls + 1
    /\ LifecycleFrame

HostCall == HostCallFrame /\ UNCHANGED <<h_load_result, h_boot, hw_vars, ctx_vars>>

\* A later step of a life-cycle call
HostStepFrame(from) ==
    /\ m_pc = from
    /\ ~terminated
    /\ host_calls' = host_calls
    /\ LifecycleFrame

HostStep(from) == HostStepFrame(from) /\ UNCHANGED <<h_load_result, h_boot, hw_vars, ctx_vars>>

\* The three requests of setup_hw_render
Core43 == [context_type |-> "RETRO_HW_CONTEXT_OPENGL_CORE", version_major |-> 4,
           version_minor |-> 3]
Core33 == [Core43 EXCEPT !.version_major = 3, !.version_minor = 3]
Compat30 == [Core33 EXCEPT !.context_type = "RETRO_HW_CONTEXT_OPENGL",
                           !.version_major = 3, !.version_minor = 0]

\* The requests a host may be asked: either OpenGL context type with one of
\* the three versions
HwRequests ==
    {[context_type |-> t, version_major |-> v[1], version_minor |-> v[2]] :
        t \in {"RETRO_HW_CONTEXT_OPENGL_CORE", "RETRO_HW_CONTEXT_OPENGL"},
        v \in {<<4, 3>>, <<3, 3>>, <<3, 0>>}}

\* Mutant of setup_hw_render: no fallback after the first request
setup_hw_render_no_fallback(cb) ==
    [calls |-> <<Core43>>, hw_render |-> Core43, ret |-> cb[Core43]]

\* setup_hw_render with the host callback cb: the requests made in order, the
\* hw_render structure it leaves and the value returned
setup_hw_render(cb) ==
    IF cb[Core43]
    THEN [calls |-> <<Core43>>, hw_render |-> Core43, ret |-> TRUE]
    ELSE IF cb[Core33]
    THEN [calls |-> <<Core43, Core33>>, hw_render |-> Core33, ret |-> TRUE]
    ELSE IF cb[Compat30]
    THEN [calls |-> <<Core43, Core33, Compat30>>, hw_render |-> Compat30, ret |-> TRUE]
    ELSE [calls |-> <<Core43, Core33, Compat30>>, hw_render |-> Compat30, ret |-> FALSE]

\* retro_init: returns at once when the core is initialized; otherwise ...
\* setup_hw_render(), whose failure is only logged; core_initialized = true
retro_init ==
    /\ HostCallFrame
    /\ UNCHANGED <<h_load_result, h_boot, environ_cb, ctx_vars>>
    /\ IF core_initialized
       THEN UNCHANGED <<hw_render, h_hw_calls, h_hw_ret>>
       ELSE LET r == setup_hw_render(environ_cb)
            IN /\ hw_render' = r.hw_render
               /\ h_hw_calls' = r.calls
               /\ h_hw_ret' = (IF r.ret THEN "true" ELSE "false")
    /\ core_initialized' = TRUE
    /\ UNCHANGED <<m_pc, game_loaded, pending_game_boot, m_site>>
    /\ UNCHANGED <<init_vars, wdflag_vars, wd_pc, emu_vars, s_paused_by_watchdog,
                   s_last_retro_run_us>>

\* What retro_load_game returns: false without a game path; with one, the
\* OpenGL renderer is selected (line 833) and the call returns true after
\* deferring the boot
retro_load_game_returns(has_path) == IF has_path THEN "true" ELSE "false"

\* retro_load_game: the OpenGL renderer is always selected, so the boot is
\* deferred to context_reset
retro_load_game(has_path) ==
    /\ HostCallFrame
    /\ UNCHANGED <<hw_vars, ctx_vars>>
    /\ pending_game_boot' = (IF has_path THEN TRUE ELSE pending_game_boot)
    /\ h_load_result' = (IF has_path THEN retro_load_game_returns(has_path)
                         ELSE h_load_result)
    /\ UNCHANGED h_boot
    /\ UNCHANGED <<m_pc, core_initialized, game_loaded, m_site>>
    /\ UNCHANGED <<init_vars, wdflag_vars, wd_pc, emu_vars, s_paused_by_watchdog,
                   s_last_retro_run_us>>

\* Mutant of BootsPending: context_reset boots whenever no game is loaded
BootsPending_ignores_flag == ~game_loaded

\* if (pending_game_boot && !game_loaded) of context_reset
BootsPending == pending_game_boot /\ ~game_loaded

\* What the host and the platform answer during a libretro_video_init call:
\* get_proc_address is non-null, a context is current (wglGetCurrentDC and
\* wglGetCurrentContext), the wglCreateContextAttribsARB extension is there,
\* and which of the pre-creation calls succeed
Platforms == [get_proc : BOOLEAN, current : BOOLEAN, ext : BOOLEAN,
              results : [1..PrecreateCount -> BOOLEAN]]

\* A platform where no context is current when libretro_gl_init runs
NoContext == [get_proc |-> TRUE, current |-> FALSE, ext |-> FALSE,
              results |-> [i \in 1..PrecreateCount |-> FALSE]]

Range(seq) == {seq[i] : i \in DOMAIN seq}

\* precreate_shared_contexts(count): the pool it leaves, given which of the
\* wglCreateContextAttribsARB calls succeed.  Context MainCtx + k is the k-th
\* context the platform creates.
RECURSIVE precreate_shared_contexts(_, _, _)
precreate_shared_contexts(count, results, created) ==
    IF ~s_main_hdc \/ s_main_hglrc = 0 \/ ~wglCreateContextAttribsARB_ptr \/ count = 0
    THEN <<>>
    ELSE LET rest == precreate_shared_contexts(count - 1, results,
                        IF results[count] THEN created - 1 ELSE created)
         IN IF results[count] THEN Append(rest, MainCtx + created) ELSE rest

\* libretro_gl_init: nothing without get_proc_address; otherwise capture the
\* main context, load the extension pointer and precreate_shared_contexts
libretro_gl_init(p) ==
    IF ~p.get_proc
    THEN UNCHANGED <<s_main_hdc, s_main_hglrc, wglCreateContextAttribsARB_ptr,
                     s_available_contexts, ctx_st, ctx_gen>>
    ELSE /\ s_main_hdc' = p.current
         /\ s_main_hglrc' = (IF p.current THEN MainCtx ELSE 0)
         /\ wglCreateContextAttribsARB_ptr' = p.ext
         /\ LET made == Cardinality({i \in 1..PrecreateCount : p.results[i]})
                new == (precreate_shared_contexts(PrecreateCount, p.results, made))'
                pushed == [i \in 1..Len(new) |-> new[i] + ctx_gen]
            IN /\ s_available_contexts' = s_available_contexts \o pushed
               /\ ctx_gen' = ctx_gen + Len(new)
               /\ ctx_st' = [c \in CtxIds |->
                      IF c \in Range(pushed) \/ c = s_main_hglrc' THEN "live"
                      ELSE ctx_st[c]]

\* Mutant of NeedsGlInit: libretro_video_init runs libretro_gl_init every time
NeedsGlInit_always == TRUE

\* if (!s_gl_initialized) of libretro_video_init
NeedsGlInit == ~s_gl_initialized

\* libretro_video_init under s_video_mutex: store the callbacks, run
\* libretro_gl_init the first time only
libretro_video_init(p) ==
    /\ s_video_mutex = 0
    /\ s_context_pool_mutex = 0
    /\ s_get_current_framebuffer' = TRUE
    /\ s_gl_initialized' = TRUE
    /\ IF NeedsGlInit
       THEN libretro_gl_init(p)
       ELSE UNCHANGED <<s_main_hdc, s_main_hglrc, wglCreateContextAttribsARB_ptr,
                        s_available_contexts, ctx_st, ctx_gen>>
    /\ UNCHANGED <<s_shared_contexts, s_context_pool_mutex, s_video_mutex, c_pc, c_ctx,
                   c_held, make_calls, delete_calls, h_make, h_released>>

\* context_reset up to the pending-boot test: libretro_video_init.  The count
\* of libretro_video_init calls is left to the specification.
context_reset(p) ==
    /\ HostCallFrame
    /\ UNCHANGED <<h_load_result, h_boot, hw_vars>>
    /\ libretro_video_init(p)
    /\ m_pc' = (IF BootsPending THEN "boot" ELSE "idle")
    /\ UNCHANGED <<core_initialized, game_loaded, pending_game_boot, m_site>>
    /\ UNCHANGED <<wdflag_vars, wd_pc, emu_vars, s_paused_by_watchdog, s_last_retro_run_us>>

\* How a do_boot_game call can go: Emu.BootGame returns an error code
\* ("generic_error" stands for every game_boot_result but no_errors), throws a
\* std::exception or something else, or returns no_errors and the emulator is
\* running or stopped when the wait loop ends
BootOutcomes == {"generic_error", "std_exception", "other_exception", "running", "stopped"}

\* Mutant of BootFails: an exception of Emu.BootGame is not taken for a failure
BootFails_no_catch(outcome) == outcome = "generic_error"

\* do_boot_game returns false: one of the two catch clauses, or
\* result != game_boot_result::no_errors
BootFails(outcome) == outcome \in {"generic_error", "std_exception", "other_exception"}

\* do_boot_game up to its start_pause_watchdog call: the boot fails (returns
\* false), or the emulator ends up running or stopped
do_boot_game(outcome) ==
    /\ HostStepFrame("boot")
    /\ UNCHANGED <<hw_vars, ctx_vars>>
    /\ h_boot' = outcome
    /\ UNCHANGED h_load_result
    /\ m_pc' = (IF BootFails(outcome) THEN "reset_done" ELSE "start_xchg")
    /\ m_site' = (IF BootFails(outcome) THEN m_site ELSE "boot")
    /\ emu_state' = (IF outcome \in {"running", "stopped"} THEN outcome ELSE emu_state)
    /\ h_pause_owner' = (IF BootFails(outcome) THEN h_pause_owner ELSE "none")
    /\ UNCHANGED <<core_initialized, game_loaded, pending_game_boot>>
    /\ UNCHANGED <<init_vars, wdflag_vars, wd_pc, s_paused_by_watchdog, s_last_retro_run_us>>

\* Where a finished start_pause_watchdog / stop_pause_watchdog call returns to
ReturnPc ==
    CASE m_site = "boot" -> "boot_ok"
      [] m_site = "reset" -> "reset_done"
      [] m_site = "unload" -> "unload_rest"
      [] m_site = "deinit" -> "deinit_rest"
      [] OTHER -> "idle"

\* Mutant of AlreadyRunning: start_pause_watchdog without its running guard
AlreadyRunning_unguarded == FALSE

\* s_pause_watchdog_running.exchange(true) of start_pause_watchdog
AlreadyRunning == s_pause_watchdog_running

\* if (s_pause_watchdog_running.exchange(true)) return;
start_exchange ==
    /\ HostStep("start_xchg")
    /\ s_pause_watchdog_running' = TRUE
    /\ m_pc' = (IF AlreadyRunning THEN ReturnPc ELSE "start_init")
    /\ UNCHANGED <<core_initialized, game_loaded, pending_game_boot, m_site>>
    /\ UNCHANGED <<s_pause_watchdog_stop, s_pause_watchdog_thread, terminated>>
    /\ UNCHANGED <<init_vars, wd_pc, emu_vars, s_paused_by_watchdog, s_last_retro_run_us>>

\* s_pause_watchdog_stop.store(false); s_paused_by_watchdog.store(false);
\* s_last_retro_run_us.store(lr_now_us())
start_init ==
    /\ HostStep("start_init")
    /\ m_pc' = "start_spawn"
    /\ s_pause_watchdog_stop' = FALSE
    /\ s_paused_by_watchdog' = FALSE
    /\ s_last_retro_run_us' = now_us
    /\ UNCHANGED <<core_initialized, game_loaded, pending_game_boot, m_site>>
    /\ UNCHANGED <<s_pause_watchdog_running, s_pause_watchdog_thread, terminated>>
    /\ UNCHANGED <<init_vars, wd_pc, emu_vars>>

\* The watchdog threads that have not been started
FreeThreads == {t \in ThreadIds : wd_pc[t] = "none"}

\* s_pause_watchdog_thread = std::thread(...): the new thread runs; assigning
\* to a handle that is still joinable calls std::terminate
start_spawn ==
    /\ HostStep("start_spawn")
    /\ FreeThreads # {}
    /\ LET t == CHOOSE u \in FreeThreads : \A v \in FreeThreads : u <= v
       IN /\ wd_pc' = [wd_pc EXCEPT ![t] = "head"]
          /\ s_pause_watchdog_thread' = t
    /\ terminated' = (s_pause_watchdog_thread # 0)
    /\ m_pc' = ReturnPc
    /\ UNCHANGED <<core_initialized, game_loaded, pending_game_boot, m_site>>
    /\ UNCHANGED <<s_pause_watchdog_running, s_pause_watchdog_stop>>
    /\ UNCHANGED <<init_vars, emu_vars, s_paused_by_watchdog, s_last_retro_run_us>>

\* context_reset after do_boot_game returned true: game_loaded = true, then
\* start_pause_watchdog() again
context_reset_booted ==
    /\ HostStep("boot_ok")
    /\ game_loaded' = TRUE
    /\ m_site' = "reset"
    /\ m_pc' = "start_xchg"
    /\ UNCHANGED <<core_initialized, pending_game_boot>>
    /\ UNCHANGED <<init_vars, wdflag_vars, wd_pc, emu_vars, s_paused_by_watchdog,
                   s_last_retro_run_us>>

\* pending_game_boot = false
context_reset_done ==
    /\ HostStepFrame("reset_done")
    /\ UNCHANGED <<hw_vars, ctx_vars>>
    /\ pending_game_boot' = FALSE
    /\ h_load_result' = "none"
    /\ h_boot' = "none"
    /\ m_site' = "none"
    /\ m_pc' = "idle"
    /\ UNCHANGED <<core_initialized, game_loaded>>
    /\ UNCHANGED <<init_vars, wdflag_vars, wd_pc, emu_vars, s_paused_by_watchdog,
                   s_last_retro_run_us>>

\* context_destroy: libretro_video_deinit
context_destroy ==
    /\ HostCall
    /\ s_video_mutex = 0
    /\ s_get_current_framebuffer' = FALSE
    /\ UNCHANGED <<m_pc, s_gl_initialized, core_initialized, game_loaded, pending_game_boot,
                   m_site>>
    /\ UNCHANGED <<wdflag_vars, wd_pc, emu_vars, s_paused_by_watchdog, s_last_retro_run_us>>

\* retro_unload_game up to its stop_pause_watchdog call
retro_unload_game ==
    /\ HostCall
    /\ m_site' = "unload"
    /\ m_pc' = "stop_xchg"
    /\ UNCHANGED <<core_initialized, game_loaded, pending_game_boot>>
    /\ UNCHANGED <<init_vars, wdflag_vars, wd_pc, emu_vars, s_paused_by_watchdog,
                   s_last_retro_run_us>>

\* retro_deinit up to its stop_pause_watchdog call; returns at once when the
\* core is not initialized
retro_deinit ==
    /\ HostCall
    /\ m_site' = (IF core_initialized THEN "deinit" ELSE m_site)
    /\ m_pc' = (IF core_initialized THEN "stop_xchg" ELSE "idle")
    /\ UNCHANGED <<core_initialized, game_loaded, pending_game_boot>>
    /\ UNCHANGED <<init_vars, wdflag_vars, wd_pc, emu_vars, s_paused_by_watchdog,
                   s_last_retro_run_us>>

\* if (!s_pause_watchdog_running.exchange(false)) return;
stop_exchange ==
    /\ HostStep("stop_xchg")
    /\ s_pause_watchdog_running' = FALSE
    /\ m_pc' = (IF s_pause_watchdog_running THEN "stop_signal" ELSE ReturnPc)
    /\ UNCHANGED <<core_initialized, game_loaded, pending_game_boot, m_site>>
    /\ UNCHANGED <<s_pause_watchdog_stop, s_pause_watchdog_thread, terminated>>
    /\ UNCHANGED <<init_vars, wd_pc, emu_vars, s_paused_by_watchdog, s_last_retro_run_us>>

\* s_pause_watchdog_stop.store(true)
stop_signal ==
    /\ HostStep("stop_signal")
    /\ s_pause_watchdog_stop' = TRUE
    /\ m_pc' = "stop_join"
    /\ UNCHANGED <<core_initialized, game_loaded, pending_game_boot, m_site>>
    /\ UNCHANGED <<s_pause_watchdog_running, s_pause_watchdog_thread, terminated>>
    /\ UNCHANGED <<init_vars, wd_pc, emu_vars, s_paused_by_watchdog, s_last_retro_run_us>>

\* if (s_pause_watchdog_thread.joinable()) s_pause_watchdog_thread.join();
\* join returns once the thread has left its loop
stop_join ==
    /\ HostStep("stop_join")
    /\ IF s_pause_watchdog_thread = 0
       THEN UNCHANGED <<wd_pc, s_pause_watchdog_thread>>
       ELSE /\ wd_pc[s_pause_watchdog_thread] = "done"
            /\ wd_pc' = [wd_pc EXCEPT ![s_pause_watchdog_thread] = "none"]
            /\ s_pause_watchdog_thread' = 0
    /\ m_pc' = "stop_reset"
    /\ UNCHANGED <<core_initialized, game_loaded, pending_game_boot, m_site>>
    /\ UNCHANGED <<s_pause_watchdog_running, s_pause_watchdog_stop, terminated>>
    /\ UNCHANGED <<init_vars, emu_vars, s_paused_by_watchdog, s_last_retro_run_us>>

\* s_pause_watchdog_stop.store(false); s_paused_by_watchdog.store(false);
\* s_last_retro_run_us.store(0)
stop_reset ==
    /\ HostStep("stop_reset")
    /\ s_pause_watchdog_stop' = FALSE
    /\ s_paused_by_watchdog' = FALSE
    /\ s_last_retro_run_us' = 0
    /\ m_pc' = ReturnPc
    /\ UNCHANGED <<core_initialized, game_loaded, pending_game_boot, m_site>>
    /\ UNCHANGED <<s_pause_watchdog_running, s_pause_watchdog_thread, terminated>>
    /\ UNCHANGED <<init_vars, wd_pc, emu_vars>>

\* Emu.GracefulShutdown(false, false)
Emu_GracefulShutdown(state) == "stopped"

\* retro_unload_game after stop_pause_watchdog: shut down and clear game_loaded
retro_unload_game_rest ==
    /\ HostStep("unload_rest")
    /\ emu_state' = (IF game_loaded THEN Emu_GracefulShutdown(emu_state) ELSE emu_state)
    /\ h_pause_owner' = (IF game_loaded THEN "none" ELSE h_pause_owner)
    /\ game_loaded' = FALSE
    /\ m_site' = "none"
    /\ m_pc' = "idle"
    /\ UNCHANGED <<core_initialized, pending_game_boot>>
    /\ UNCHANGED <<init_vars, wdflag_vars, wd_pc, s_paused_by_watchdog, s_last_retro_run_us>>

\* retro_deinit after stop_pause_watchdog: shut down, core_initialized = false,
\* game_loaded = false
retro_deinit_rest ==
    /\ HostStep("deinit_rest")
    /\ emu_state' = (IF game_loaded THEN Emu_GracefulShutdown(emu_state) ELSE emu_state)
    /\ h_pause_owner' = (IF game_loaded THEN "none" ELSE h_pause_owner)
    /\ core_initialized' = FALSE
    /\ game_loaded' = FALSE
    /\ m_site' = "none"
    /\ m_pc' = "idle"
    /\ UNCHANGED pending_game_boot
    /\ UNCHANGED <<init_vars, wdflag_vars, wd_pc, s_paused_by_watchdog, s_last_retro_run_us>>

Lifecycle ==
    \/ retro_init
    \/ \E has_path \in BOOLEAN : retro_load_game(has_path)
    \/ context_reset(NoContext) /\ UNCHANGED h_video_inits
    \/ \E outcome \in BootOutcomes : do_boot_game(outcome)
    \/ start_exchange
    \/ start_init
    \/ start_spawn
    \/ context_reset_booted
    \/ context_reset_done
    \/ context_destroy
    \/ retro_unload_game
    \/ retro_deinit
    \/ stop_exchange
    \/ stop_signal
    \/ stop_join
    \/ stop_reset
    \/ retro_unload_game_rest
    \/ retro_deinit_rest

\* ------------------------------------------------------- clock, other callers
\* The steady clock moves on by step_us
clock_advance(step_us, max_steps) ==
    /\ now_us < max_steps * step_us
    /\ now_us' = now_us + step_us
    /\ UNCHANGED <<audio_vars, ctx_vars, hw_vars, ring_vars, wait_vars, gl_caps, init_vars, counter_vars, fence_vars, tex_vars, mainfbo_vars,
                   render_vars, main_vars, hist_vars, core_vars, wdflag_vars, wd_vars,
                   pause_vars, tick_vars>>

\* What an Emu.Pause / Emu.Resume call from outside the watchdog leaves alone
OtherCallFrame ==
    /\ other_calls < MaxOtherCalls
    /\ other_calls' = other_calls + 1
    /\ UNCHANGED <<s_paused_by_watchdog, h_pauses, h_resumes, h_pause_tick, h_resume_tick>>
    /\ UNCHANGED <<audio_vars, ctx_vars, hw_vars, ring_vars, wait_vars, gl_caps, init_vars, counter_vars, fence_vars, tex_vars, mainfbo_vars,
                   render_vars, main_vars, hist_vars, core_vars, wdflag_vars, wd_vars,
                   tick_vars, now_us>>

\* The user (or the emulator itself) pauses emulation
other_Pause ==
    /\ OtherCallFrame
    /\ emu_state' = Emu_Pause(emu_state)
    /\ h_pause_owner' = OwnerAfterPause("other")

\* The user (or the emulator itself) resumes emulation
other_Resume ==
    /\ OtherCallFrame
    /\ emu_state' = Emu_Resume(emu_state)
    /\ h_pause_owner' = OwnerAfterResume

\* ============================== libretro_video.cpp: the GL context pool (_WIN32)
\* std::vector::erase(std::find(..., x)): seq without its first x
EraseFirst(seq, x) ==
    LET i == CHOOSE k \in DOMAIN seq : seq[k] = x /\ \A j \in 1..(k - 1) : seq[j] # x
    IN SubSeq(seq, 1, i - 1) \o SubSeq(seq, i + 1, Len(seq))

\* What no step of a worker changes
WorkerFrame ==
    /\ UNCHANGED <<s_main_hdc, s_main_hglrc, wglCreateContextAttribsARB_ptr, h_video_inits>>
    /\ UNCHANGED <<audio_vars, hw_vars, ring_vars, wait_vars, gl_caps, init_vars, counter_vars, fence_vars, tex_vars,
                   mainfbo_vars, render_vars, main_vars, hist_vars, core_vars, wdflag_vars,
                   wd_vars, pause_vars, tick_vars, now_us>>

\* Another thread is inside a critical section that writes s_shared_contexts
\* under a different mutex than worker w holds: the two accesses race
Racing(w) ==
    \E u \in Workers \ {w} :
        \/ c_pc[w] = "del_body" /\ c_pc[u] = "mk_push"
        \/ c_pc[w] = "del_body" /\ c_pc[u] = "mk_pool" /\ s_available_contexts # <<>>
        \/ c_pc[w] \in {"mk_pool", "mk_push"} /\ c_pc[u] = "del_body"

\* s_shared_contexts.push_back(ctx): a racing push_back may be lost
PushBackResults(w, ctx) ==
    {Append(s_shared_contexts, ctx)} \cup (IF Racing(w) THEN {s_shared_contexts} ELSE {})

\* std::find(s_shared_contexts.begin(), s_shared_contexts.end(), hglrc) !=
\* end(): a racing find may miss an element that is there
FindResults(w, ctx) ==
    {ctx \in Range(s_shared_contexts)} \cup (IF Racing(w) THEN {FALSE} ELSE {})

\* make_context entry: std::lock_guard lock(s_context_pool_mutex)
make_context(w) ==
    /\ c_pc[w] = "idle"
    /\ make_calls < MaxMakes
    /\ s_context_pool_mutex = 0
    /\ s_context_pool_mutex' = w
    /\ make_calls' = make_calls + 1
    /\ c_pc' = [c_pc EXCEPT ![w] = "mk_pool"]
    /\ h_make' = [h_make EXCEPT ![w] = [empty |-> FALSE, calls |-> <<>>,
                                        done |-> FALSE, ret |-> 0]]
    /\ UNCHANGED <<s_available_contexts, s_shared_contexts, s_video_mutex, ctx_st, ctx_gen,
                   c_ctx, c_held, delete_calls, h_released>>
    /\ WorkerFrame

\* The creation calls make_context tries, in order
Ladder ==
    IF wglCreateContextAttribsARB_ptr
    THEN <<"mk_shared", "mk_unshared", "mk_legacy">>
    ELSE <<"mk_legacy">>

\* Mutant of AfterFailure: make_context gives up after the first failed call
AfterFailure_gives_up(pc) == "return_null"

\* Where make_context goes when the creation call at pc has failed
AfterFailure(pc) ==
    CASE pc = "mk_shared" -> "mk_unshared"
      [] pc = "mk_unshared" -> "mk_legacy"
      [] OTHER -> "return_null"

\* make_context returns ret to worker w
MakeReturn(w, ret) ==
    /\ c_pc' = [c_pc EXCEPT ![w] = "idle"]
    /\ c_ctx' = [c_ctx EXCEPT ![w] = 0]
    /\ c_held' = [c_held EXCEPT ![w] = @ \cup ({ret} \ {0})]
    /\ h_make' = [h_make EXCEPT ![w].done = TRUE, ![w].ret = ret]

\* Mutant of PopBack: the checked-out context stays in the pool
PopBack_keeps(seq) == seq

\* s_available_contexts.pop_back()
PopBack(seq) == SubSeq(seq, 1, Len(seq) - 1)

\* make_context under the pool lock: hand out a pre-created context, or leave
\* the lock and start the on-demand creation (nullptr when the main context
\* was not captured)
make_context_pool(w) ==
    /\ c_pc[w] = "mk_pool"
    /\ s_context_pool_mutex' = 0
    /\ IF s_available_contexts # <<>>
       THEN LET ctx == s_available_contexts[Len(s_available_contexts)]
            IN /\ s_available_contexts' = PopBack(s_available_contexts)
               /\ s_shared_contexts' \in PushBackResults(w, ctx)
               /\ MakeReturn(w, ctx)
       ELSE /\ UNCHANGED <<s_available_contexts, s_shared_contexts>>
            /\ IF ~s_main_hdc \/ s_main_hglrc = 0
               THEN /\ c_pc' = [c_pc EXCEPT ![w] = "idle"]
                    /\ h_make' = [h_make EXCEPT ![w].empty = TRUE, ![w].done = TRUE]
               ELSE /\ c_pc' = [c_pc EXCEPT ![w] = Ladder[1]]
                    /\ h_make' = [h_make EXCEPT ![w].empty = TRUE]
            /\ UNCHANGED <<c_ctx, c_held>>
    /\ UNCHANGED <<s_video_mutex, ctx_st, ctx_gen, make_calls, delete_calls, h_released>>
    /\ WorkerFrame

\* One platform creation call of make_context: wglCreateContextAttribsARB with
\* sharing, without sharing, or wglCreateContext; ok is the platform's answer
make_context_create(w, ok) ==
    /\ c_pc[w] \in {"mk_shared", "mk_unshared", "mk_legacy"}
    /\ h_make' = [h_make EXCEPT ![w].calls = Append(@, <<c_pc[w], ok>>),
                                ![w].done = ~ok /\ AfterFailure(c_pc[w]) = "return_null"]
    /\ IF ok
       THEN /\ ctx_gen' = ctx_gen + 1
            /\ ctx_st' = [ctx_st EXCEPT ![MainCtx + ctx_gen + 1] = "live"]
            /\ c_ctx' = [c_ctx EXCEPT ![w] = MainCtx + ctx_gen + 1]
            /\ c_pc' = [c_pc EXCEPT ![w] = "mk_push_lock"]
       ELSE /\ UNCHANGED <<ctx_gen, ctx_st, c_ctx>>
            /\ c_pc' = [c_pc EXCEPT ![w] =
                   IF AfterFailure(c_pc[w]) = "return_null" THEN "idle"
                   ELSE AfterFailure(c_pc[w])]
    /\ UNCHANGED <<s_available_contexts, s_shared_contexts, s_context_pool_mutex,
                   s_video_mutex, c_held, make_calls, delete_calls, h_released>>
    /\ WorkerFrame

\* if (shared_context) { std::lock_guard lock(s_context_pool_mutex);
make_context_push_lock(w) ==
    /\ c_pc[w] = "mk_push_lock"
    /\ s_context_pool_mutex = 0
    /\ s_context_pool_mutex' = w
    /\ c_pc' = [c_pc EXCEPT ![w] = "mk_push"]
    /\ UNCHANGED <<s_available_contexts, s_shared_contexts, s_video_mutex, ctx_st, ctx_gen,
                   c_ctx, c_held, make_calls, delete_calls, h_make, h_released>>
    /\ WorkerFrame

\* s_shared_contexts.push_back(shared_context); return m_context; }
make_context_push(w) ==
    /\ c_pc[w] = "mk_push"
    /\ s_context_pool_mutex' = 0
    /\ s_shared_contexts' \in PushBackResults(w, c_ctx[w])
    /\ MakeReturn(w, c_ctx[w])
    /\ UNCHANGED <<s_available_contexts, s_video_mutex, ctx_st, ctx_gen, make_calls,
                   delete_calls, h_released>>
    /\ WorkerFrame

\* !(hglrc != s_main_hglrc)
IsMainContext(ctx) == ctx = s_main_hglrc

\* delete_context(ctx) up to the lock: nothing to do for nullptr and for the
\* main context
delete_context(w, ctx) ==
    /\ c_pc[w] = "idle"
    /\ delete_calls < MaxDeletes
    /\ delete_calls' = delete_calls + 1
    /\ c_held' = [c_held EXCEPT ![w] = @ \ {ctx}]
    /\ IF ctx = 0 \/ IsMainContext(ctx)
       THEN UNCHANGED <<c_pc, c_ctx>>
       ELSE /\ c_pc' = [c_pc EXCEPT ![w] = "del_lock"]
            /\ c_ctx' = [c_ctx EXCEPT ![w] = ctx]
    /\ UNCHANGED <<s_available_contexts, s_shared_contexts, s_context_pool_mutex,
                   s_video_mutex, ctx_st, ctx_gen, make_calls, h_make, h_released>>
    /\ WorkerFrame

\* std::lock_guard<std::mutex> lock(s_video_mutex)
delete_context_lock(w) ==
    /\ c_pc[w] = "del_lock"
    /\ s_video_mutex = 0
    /\ s_video_mutex' = w
    /\ c_pc' = [c_pc EXCEPT ![w] = "del_body"]
    /\ UNCHANGED <<s_available_contexts, s_shared_contexts, s_context_pool_mutex, ctx_st,
                   ctx_gen, c_ctx, c_held, make_calls, delete_calls, h_make, h_released>>
    /\ WorkerFrame

\* wglDeleteContext(hglrc) on the context table
DeleteContext(ctx) ==
    [ctx_st EXCEPT ![ctx] = IF @ = "live" THEN "deleted" ELSE "double_deleted"]

\* find; if found { wglDeleteContext(hglrc); s_shared_contexts.erase(it); }
delete_context_body(w) ==
    /\ c_pc[w] = "del_body"
    /\ s_video_mutex' = 0
    /\ \E found \in FindResults(w, c_ctx[w]) :
          IF found
          THEN /\ ctx_st' = DeleteContext(c_ctx[w])
               /\ s_shared_contexts' = EraseFirst(s_shared_contexts, c_ctx[w])
          ELSE UNCHANGED <<ctx_st, s_shared_contexts>>
    /\ h_released' = h_released \cup {c_ctx[w]}
    /\ c_pc' = [c_pc EXCEPT ![w] = "idle"]
    /\ c_ctx' = [c_ctx EXCEPT ![w] = 0]
    /\ UNCHANGED <<s_available_contexts, s_context_pool_mutex, ctx_gen, c_held, make_calls,
                   delete_calls, h_make>>
    /\ WorkerFrame

\* The contexts a worker may pass to delete_context
DeleteArgs(w) == {0, MainCtx} \cup c_held[w]

Worker(w) ==
    \/ make_context(w)
    \/ make_context_pool(w)
    \/ \E ok \in BOOLEAN : make_context_create(w, ok)
    \/ make_context_push_lock(w)
    \/ make_context_push(w)
    \/ \E ctx \in DeleteArgs(w) : delete_context(w, ctx)
    \/ delete_context_lock(w)
    \/ delete_context_body(w)

\* ================================================================ initial states
\* The render target's statics as their initializers leave them: nothing created
NoRenderTarget ==
    /\ s_shared_texture = 0
    /\ s_rsx_fbo = 0
    /\ s_depth_stencil_rb = 0
    /\ s_shared_texture_width = DefaultWidth
    /\ s_shared_texture_height = DefaultHeight
    /\ s_rsx_resources_created = FALSE
    /\ tex_storage = <<0, 0>>
    /\ rb_storage = <<0, 0>>
    /\ h_sizes = {}

\* The render target as the first libretro_get_rsx_fbo() leaves it: created by
\* create_rsx_render_resources at the default size
DefaultRenderTarget ==
    /\ s_shared_texture = 1
    /\ s_rsx_fbo = 1
    /\ s_depth_stencil_rb = 1
    /\ s_shared_texture_width = DefaultWidth
    /\ s_shared_texture_height = DefaultHeight
    /\ s_rsx_resources_created = TRUE
    /\ tex_storage = <<DefaultWidth, DefaultHeight>>
    /\ rb_storage = <<DefaultWidth, DefaultHeight>>
    /\ h_sizes = {<<DefaultWidth, DefaultHeight>>}

\* The other statics of libretro_video.cpp as their initializers leave them
FrameStatics ==
    /\ s_frame_ready = FALSE
    /\ s_frame_mutex = "free"
    /\ f_pc = "idle" /\ f_timeout_ms = 0 /\ f_expired = FALSE /\ f_notified = FALSE
    /\ g_pc = "idle"
    /\ wait_calls = 0 /\ signal_calls = 0
    /\ h_wait_result = "none" /\ h_wait_blocked = FALSE /\ h_unconsumed = FALSE
    /\ s_frame_count = 0
    /\ s_last_presented_frame = 0
    /\ s_present_fence = 0
    /\ s_present_fence_counter = 0
    /\ s_main_read_fbo = 0
    /\ s_main_fbo_created = FALSE
    /\ fence_st = [f \in FenceIds |-> "none"]
    /\ fbo_gen = 0
    /\ h_resizes = 0 /\ h_fbo_resizes = 0
    /\ r_pc = "idle" /\ r_fence = 0 /\ r_old = 0 /\ r_w = 0 /\ r_h = 0
    /\ tl_flip_count = 0 /\ flip_calls = 0 /\ ensure_calls = 0 /\ h_ensure = <<>>
    /\ m_pc = "idle" /\ m_fence = 0 /\ m_result = "GL_ALREADY_SIGNALED"
    /\ m_has_new_frame = FALSE /\ m_count = 0 /\ m_w = 0 /\ m_h = 0
    /\ m_in_run = FALSE /\ blit_calls = 0
    /\ h_trace = <<>>
    /\ h_last_installed = 0
    /\ h_waited = {}
    /\ h_taken = {}
    /\ h_frame_fence = <<>>
    /\ h_seen_count = 0
    /\ h_blit_size = <<0, 0>>
    /\ h_blit_count = 0
    /\ h_video_cb = "none"

\* The statics of libretro_video.cpp as their initializers leave them
VideoStatics == NoRenderTarget /\ FrameStatics

\* No thread is in make_context / delete_context and none has been called
WorkersIdle ==
    /\ s_context_pool_mutex = 0
    /\ s_video_mutex = 0
    /\ c_pc = [w \in Workers |-> "idle"]
    /\ c_ctx = [w \in Workers |-> 0]
    /\ c_held = [w \in Workers |-> {}]
    /\ make_calls = 0 /\ delete_calls = 0
    /\ h_make = [w \in Workers |-> [empty |-> FALSE, calls |-> <<>>, done |-> FALSE,
                                    ret |-> 0]]
    /\ h_released = {}

\* The context statics as their initializers leave them: no main context
\* captured, empty pool
\* The audio backend's mutex is free and libretro_audio_process is not running
AudioStatics ==
    /\ m_mutex = "free"
    /\ m_initialized = FALSE /\ m_playing = FALSE /\ m_write_callback = FALSE
    /\ m_channels = 2 /\ m_sample_size = 4
    /\ m_ring_buffer_bytes = 0
    /\ m_ring_read_pos = 0 /\ m_ring_write_pos = 0 /\ m_ring_size = 0
    /\ b_pc = "idle" /\ b_max_frames = 0 /\ b_pulls = 0
    /\ batch = 0
    /\ h_drain = <<>>

ContextStatics ==
    /\ s_main_hdc = FALSE
    /\ s_main_hglrc = 0
    /\ wglCreateContextAttribsARB_ptr = FALSE
    /\ s_available_contexts = <<>>
    /\ s_shared_contexts = <<>>
    /\ ctx_st = [c \in CtxIds |-> "none"]
    /\ ctx_gen = 0
    /\ h_video_inits = 0
    /\ WorkersIdle

\* libretro_video.cpp after libretro_video_init, before the first frame
VideoInit ==
    /\ s_gl_initialized = TRUE
    /\ s_get_current_framebuffer = TRUE
    /\ VideoStatics

\* The host callback of a host that accepts every request
GrantsAll == [r \in HwRequests |-> TRUE]

\* hw_render as its zero initializer leaves it, before any setup_hw_render
HwStatics ==
    /\ hw_render = [context_type |-> "RETRO_HW_CONTEXT_NONE", version_major |-> 0,
                    version_minor |-> 0]
    /\ h_hw_calls = <<>>
    /\ h_hw_ret = "none"

\* libretro_core.cpp after a successful load: game booted, one watchdog running
\* (the retro_init before it negotiated with a host that accepts every request)
LoadedInit ==
    /\ environ_cb = GrantsAll
    /\ hw_render = setup_hw_render(GrantsAll).hw_render
    /\ h_hw_calls = setup_hw_render(GrantsAll).calls
    /\ h_hw_ret = "true"
    /\ core_initialized = TRUE
    /\ game_loaded = TRUE
    /\ pending_game_boot = FALSE
    /\ s_pause_watchdog_running = TRUE
    /\ s_pause_watchdog_stop = FALSE
    /\ s_paused_by_watchdog = FALSE
    /\ s_pause_watchdog_thread = 1
    /\ terminated = FALSE
    /\ now_us = sleep_us
    /\ s_last_retro_run_us = sleep_us
    /\ wd_pc = [t \in ThreadIds |-> IF t = 1 THEN "head" ELSE "none"]
    /\ wd_now = [t \in ThreadIds |-> 0]
    /\ wd_last = [t \in ThreadIds |-> 0]
    /\ wd_wake = [t \in ThreadIds |-> 0]
    /\ emu_state = "running"
    /\ h_pauses = 0 /\ h_resumes = 0
    /\ h_pause_owner = "none"
    /\ h_ticks = 0
    /\ h_tick_us = sleep_us
    /\ h_crossings = 0
    /\ h_gaps_ok = TRUE
    /\ h_pause_tick = 0 /\ h_resume_tick = 0
    /\ h_cross_tick = 0
    /\ other_calls = 0
    /\ m_site = "none"
    /\ host_calls = 0
    /\ h_load_result = "none"
    /\ h_boot = "none"

\* --------------------------------------------------- Spec: the frame hand-off
\* The render thread flips while the host runs retro_run ticks.  The three GL
\* sync entry points are resolved one by one by libretro_gl_init, so each may
\* be missing on its own.
Init ==
    /\ VideoInit
    /\ LoadedInit
    /\ ContextStatics
    /\ AudioStatics
    /\ glFenceSync \in BOOLEAN
    /\ glClientWaitSync \in BOOLEAN
    /\ glDeleteSync \in BOOLEAN

RenderFlip ==
    \/ \E skip_frame \in BOOLEAN : GLGSRender_flip(skip_frame)
    \/ libretro_bind_hw_fbo
    \/ flip_fence
    \/ flip_install
    \/ flip_delete_old
    \/ flip_count

Blit ==
    \/ blit_guard
    \/ create_main_read_fbo
    \/ create_main_read_fbo_done
    \/ blit_check_fbo
    \/ blit_read_width
    \/ blit_read_height
    \/ blit_do

RetroRun ==
    \/ retro_run_input
    \/ retro_run_pads
    \/ retro_run_audio
    \/ retro_run_cleanup
    \/ wait_fence_take
    \/ \E result \in WaitResults : wait_fence_client_wait(result)
    \/ wait_fence_delete
    \/ retro_run_has_new_frame
    \/ Blit
    \/ retro_run_video_cb_valid
    \/ retro_run_video_cb_null
    \/ mark_frame_presented_load
    \/ mark_frame_presented_store

Next ==
    \/ RenderFlip
    \/ retro_run_enter(MaxTicks)
    \/ RetroRun

Spec == Init /\ [][Next]_vars

\* ------------------------------- SpecRender: the shared render target's API
\* The render thread sizes the render target while the main thread blits.
InitRender ==
    /\ VideoInit
    /\ LoadedInit
    /\ ContextStatics
    /\ AudioStatics
    /\ glFenceSync = TRUE
    /\ glClientWaitSync = TRUE
    /\ glDeleteSync = TRUE

NextRender ==
    \/ libretro_get_rsx_fbo
    \/ \E width \in Widths, height \in Heights : libretro_ensure_render_size(width, height)
    \/ resize_texture
    \/ resize_renderbuffer
    \/ resize_store_width
    \/ resize_store_height
    \/ resize_clear_flag
    \/ libretro_blit_to_frontend
    \/ Blit

SpecRender == InitRender /\ [][NextRender]_vars

\* --------------------------- SpecResize: sizing a render target that may exist
\* As SpecRender, started with no render target or with the one the first
\* libretro_get_rsx_fbo() creates.
InitResize ==
    /\ s_gl_initialized = TRUE
    /\ s_get_current_framebuffer = TRUE
    /\ FrameStatics
    /\ (NoRenderTarget \/ DefaultRenderTarget)
    /\ LoadedInit
    /\ ContextStatics
    /\ AudioStatics
    /\ glFenceSync = TRUE
    /\ glClientWaitSync = TRUE
    /\ glDeleteSync = TRUE

SpecResize == InitResize /\ [][NextRender]_vars

\* ------------------------------------- SpecRing: the audio backend's ring
\* The emulator opens, closes, plays and pauses the backend and sets its
\* write callback while the host calls GetSamples; the write callback returns
\* at most the byte count it was asked for.
NextRing ==
    \/ \E freq \in Freqs, sample_size \in SampleSizes, ch_cnt \in ChannelCounts :
          Open(freq, sample_size, ch_cnt)
    \/ Close
    \/ \E cb \in BOOLEAN : SetWriteCallback(cb)
    \/ \E playing \in BOOLEAN : SetPlaying(playing)
    \/ \E max_frames \in 1..MaxFrames : GetSamples_guard(max_frames)
    \/ GetSamples_lock
    \/ \E bytes_written \in 0..pull_bytes : GetSamples_pull(bytes_written)
    \/ GetSamples_read

SpecRing == InitRender /\ [][NextRing]_vars

\* ------------------------------- SpecWait: the blocking wait for a frame
\* One thread signals frames while another calls libretro_wait_for_frame.
NextWait ==
    \/ signal_lock
    \/ signal_set
    \/ signal_notify
    \/ \E timeout_ms \in Timeouts : libretro_wait_for_frame(timeout_ms)
    \/ wait_exchange
    \/ wait_expire
    \/ \E spurious \in BOOLEAN : wait_wake(spurious)
    \/ wait_check

SpecWait == InitRender /\ [][NextWait]_vars

\* ------------------------ SpecPresent: a tick against render and audio threads
\* As Spec with the fence entry points resolved, and with the emulator's audio
\* thread taking and releasing the audio backend's mutex at will.  The host's thread keeps running once it is inside
\* retro_run; nothing is assumed of the other threads.
AudioProcess ==
    /\ \/ \E has_backend \in BOOLEAN : libretro_audio_process(has_backend)
       \/ \E active \in BOOLEAN : GetSamples(active)
       \/ GetSamples_try_lock
       \/ GetSamples_lock_timeout
       \/ \E frames \in FrameCounts : GetSamples_return(frames)
    /\ UNCHANGED h_drain

PresentTick ==
    \/ retro_run_input
    \/ retro_run_pads
    \/ AudioProcess
    \/ retro_run_cleanup
    \/ wait_fence_take
    \/ \E result \in WaitResults : wait_fence_client_wait(result)
    \/ wait_fence_delete
    \/ retro_run_has_new_frame
    \/ Blit
    \/ retro_run_video_cb_valid
    \/ retro_run_video_cb_null
    \/ mark_frame_presented_load
    \/ mark_frame_presented_store

NextPresent ==
    \/ RenderFlip
    \/ audio_backend_lock
    \/ audio_backend_unlock
    \/ retro_run_enter(PresentTicks)
    \/ PresentTick

SpecPresent == InitRender /\ [][NextPresent]_vars /\ WF_vars(PresentTick)

\* ------------------------------------ SpecAudio: the audio drain of each tick
\* The host ticks retro_run while the render thread produces nothing and the
\* emulator's audio thread takes and releases the backend's mutex; h_drain
\* keeps the GetSamples calls of the tick's libretro_audio_process call.
AudioDrain ==
    \/ \E has_backend \in BOOLEAN :
          libretro_audio_process(has_backend) /\ h_drain' = <<>>
    \/ \E active \in BOOLEAN :
          GetSamples(active) /\
          h_drain' = (IF active THEN h_drain ELSE Append(h_drain, Drained(0)))
    \/ GetSamples_try_lock /\ UNCHANGED h_drain
    \/ GetSamples_lock_timeout /\ h_drain' = Append(h_drain, Drained(0))
    \/ \E frames \in FrameCounts :
          GetSamples_return(frames) /\ h_drain' = Append(h_drain, Drained(frames))

NextAudio ==
    \/ audio_backend_lock
    \/ audio_backend_unlock
    \/ retro_run_enter(MaxTicks)
    \/ retro_run_input
    \/ retro_run_pads
    \/ AudioDrain
    \/ retro_run_cleanup
    \/ wait_fence_take
    \/ retro_run_has_new_frame
    \/ retro_run_video_cb_null

SpecAudio == InitRender /\ [][NextAudio]_vars

\* ------------------------------ SpecWatchdog: the pause watchdog against ticks
\* The host ticks retro_run at any pace while the render thread produces
\* nothing and the watchdog polls.
InitWatchdog ==
    /\ VideoInit
    /\ LoadedInit
    /\ ContextStatics
    /\ AudioStatics
    /\ glFenceSync = TRUE
    /\ glClientWaitSync = TRUE
    /\ glDeleteSync = TRUE

NextWatchdog ==
    \/ \E t \in ThreadIds : Watchdog(t)
    \/ clock_advance(coarse_step_us, MaxTime)
    \/ retro_run_enter(MaxTicks)
    \/ retro_run_input
    \/ retro_run_pads
    \/ retro_run_audio
    \/ retro_run_cleanup
    \/ wait_fence_take
    \/ retro_run_has_new_frame
    \/ retro_run_video_cb_null

SpecWatchdog == InitWatchdog /\ [][NextWatchdog]_vars

\* ------------------- SpecOtherCallers: the watchdog among other pause callers
\* As SpecWatchdog, while somebody else pauses and resumes emulation too.
NextOtherCallers ==
    \/ NextWatchdog
    \/ other_Pause
    \/ other_Resume

SpecOtherCallers == InitWatchdog /\ [][NextOtherCallers]_vars

\* ----------------------------------- SpecScenarioD: Scenario D, played on time
\* Tick gaps of ShortTicks x 10 ms, one of 150 ms, ShortTicks x 10 ms.
short_gap_us == 10000
long_gap_us == 150000
ScenarioTicks == 2 * ShortTicks + 1
ScenarioGap(i) == IF i = ShortTicks + 1 THEN long_gap_us ELSE short_gap_us
ScenarioSteps == (2 * ShortTicks * short_gap_us + long_gap_us) \div sleep_us + 2

\* When the host makes its next retro_run call
ScenarioDue == h_tick_us + ScenarioGap(h_ticks + 1)

\* A watchdog thread that lets the clock move on: not started, finished, or
\* asleep and not overdue by more than MaxJitter steps
LetsClockAdvance(t) ==
    \/ wd_pc[t] \in {"none", "done"}
    \/ wd_pc[t] = "sleeping" /\ now_us < wd_wake[t] + MaxJitter * sleep_us

\* The clock moves on by 10 ms: retro_run has returned, the next tick is not
\* yet due, and no watchdog thread is in the middle of an iteration
scenario_clock ==
    /\ h_ticks < ScenarioTicks
    /\ m_pc = "idle"
    /\ now_us < ScenarioDue
    /\ \A t \in ThreadIds : LetsClockAdvance(t)
    /\ clock_advance(sleep_us, ScenarioSteps)

\* The host calls retro_run when the gap is over
scenario_tick ==
    /\ now_us >= ScenarioDue
    /\ retro_run_enter(ScenarioTicks)

NextScenarioD ==
    \/ \E t \in ThreadIds : Watchdog(t)
    \/ scenario_clock
    \/ scenario_tick
    \/ retro_run_input
    \/ retro_run_pads
    \/ retro_run_audio
    \/ retro_run_cleanup
    \/ wait_fence_take
    \/ retro_run_has_new_frame
    \/ retro_run_video_cb_null

SpecScenarioD == InitWatchdog /\ [][NextScenarioD]_vars

\* ------------------------- SpecLifecycle: load, reset, run, unload and deinit
\* From the statics' initial values the host makes life-cycle calls and
\* retro_run ticks in any order while the watchdog threads run.
LifecycleStatics ==
    /\ VideoStatics
    /\ ContextStatics
    /\ AudioStatics
    /\ HwStatics
    /\ s_gl_initialized = FALSE
    /\ s_get_current_framebuffer = FALSE
    /\ glFenceSync = TRUE
    /\ glClientWaitSync = TRUE
    /\ glDeleteSync = TRUE
    /\ core_initialized = FALSE
    /\ game_loaded = FALSE
    /\ pending_game_boot = FALSE
    /\ m_site = "none"
    /\ host_calls = 0
    /\ h_load_result = "none"
    /\ h_boot = "none"
    /\ s_pause_watchdog_running = FALSE
    /\ s_pause_watchdog_stop = FALSE
    /\ s_paused_by_watchdog = FALSE
    /\ s_pause_watchdog_thread = 0
    /\ terminated = FALSE
    /\ now_us = sleep_us
    /\ s_last_retro_run_us = 0
    /\ wd_pc = [t \in ThreadIds |-> "none"]
    /\ wd_now = [t \in ThreadIds |-> 0]
    /\ wd_last = [t \in ThreadIds |-> 0]
    /\ wd_wake = [t \in ThreadIds |-> 0]
    /\ emu_state = "stopped"
    /\ h_pauses = 0 /\ h_resumes = 0
    /\ h_pause_owner = "none"
    /\ h_ticks = 0
    /\ h_tick_us = sleep_us
    /\ h_crossings = 0
    /\ h_gaps_ok = TRUE
    /\ h_pause_tick = 0 /\ h_resume_tick = 0
    /\ h_cross_tick = 0
    /\ other_calls = 0

\* The host of the life cycle accepts every context request
InitLifecycle == LifecycleStatics /\ environ_cb = GrantsAll

\* Step of the clock during the life cycle: one step takes the time since the
\* last tick past the pause threshold
long_step_us == 4 * coarse_step_us

\* The clock moves on by 120 ms; a retro_run call takes less than that
lifecycle_clock ==
    /\ ~m_in_run
    /\ clock_advance(long_step_us, MaxLongSteps)

NextLifecycle ==
    \/ Lifecycle
    \/ \E t \in ThreadIds : Watchdog(t)
    \/ lifecycle_clock
    \/ retro_run_enter(LifecycleTicks)
    \/ retro_run_input
    \/ retro_run_pads
    \/ retro_run_audio
    \/ retro_run_cleanup
    \/ wait_fence_take
    \/ retro_run_has_new_frame
    \/ retro_run_video_cb_null

SpecLifecycle == InitLifecycle /\ [][NextLifecycle]_vars

\* ------------------------- SpecShutdown: stopping a running pause watchdog
\* A game is loaded and its watchdog runs; the host ticks retro_run, then
\* unloads the game or deinitializes the core.  Every thread keeps being
\* scheduled and time passes.
\* A watchdog thread sleeps although it has been told to stop
SleepsThroughStop ==
    \E t \in ThreadIds :
        wd_pc[t] = "sleeping" /\ s_pause_watchdog_stop /\ now_us < wd_wake[t]

\* The clock moves on by 120 ms: MaxLongSteps times while the watchdog runs,
\* and once more past the sleep of a watchdog that has been told to stop
shutdown_clock ==
    /\ ~m_in_run
    /\ clock_advance(long_step_us,
                     IF SleepsThroughStop THEN MaxLongSteps + 1 ELSE MaxLongSteps)

StopPauseWatchdog ==
    \/ stop_exchange
    \/ stop_signal
    \/ stop_join
    \/ stop_reset

NextShutdown ==
    \/ \E t \in ThreadIds : Watchdog(t)
    \/ shutdown_clock
    \/ retro_run_enter(MaxTicks)
    \/ retro_run_input
    \/ retro_run_pads
    \/ retro_run_audio
    \/ retro_run_cleanup
    \/ wait_fence_take
    \/ retro_run_has_new_frame
    \/ retro_run_video_cb_null
    \/ retro_unload_game
    \/ retro_deinit
    \/ StopPauseWatchdog
    \/ retro_unload_game_rest
    \/ retro_deinit_rest

SpecShutdown ==
    /\ InitWatchdog
    /\ [][NextShutdown]_vars
    /\ WF_vars(\E t \in ThreadIds : Watchdog(t))
    /\ WF_vars(shutdown_clock)
    /\ WF_vars(StopPauseWatchdog)


\* ------------------------------ SpecNegotiate: retro_init with any kind of host
\* The host accepts any set of context requests; it initializes and
\* deinitializes the core in any order.
InitNegotiate == LifecycleStatics /\ environ_cb \in [HwRequests -> BOOLEAN]

NextNegotiate ==
    \/ retro_init
    \/ retro_deinit
    \/ stop_exchange
    \/ retro_deinit_rest

SpecNegotiate == InitNegotiate /\ [][NextNegotiate]_vars


\* ------------------------------------- SpecPool: context resets and the pool
\* The host delivers context_reset and context_destroy in any order, on any
\* platform.
PoolReset(p) == context_reset(p) /\ h_video_inits' = h_video_inits + 1

NextPool ==
    \/ \E p \in Platforms : PoolReset(p)
    \/ context_destroy

SpecPool == InitLifecycle /\ [][NextPool]_vars


\* ------------------------------------------- SpecContexts: the GL context pool
\* After libretro_gl_init (the main context captured or not, the extension
\* pointer loaded or not, each pre-creation succeeded or not) the RSX thread and
\* the shader compiler workers check contexts out and hand them back.
InitContexts ==
    /\ VideoInit
    /\ LoadedInit
    /\ AudioStatics
    /\ glFenceSync = TRUE
    /\ glClientWaitSync = TRUE
    /\ glDeleteSync = TRUE
    /\ s_main_hdc \in BOOLEAN
    /\ s_main_hglrc = (IF s_main_hdc THEN MainCtx ELSE 0)
    /\ wglCreateContextAttribsARB_ptr \in BOOLEAN
    /\ \E results \in [1..PrecreateCount -> BOOLEAN] :
          LET made == Cardinality({i \in 1..PrecreateCount : results[i]})
          IN /\ s_available_contexts =
                    precreate_shared_contexts(PrecreateCount, results, made)
             /\ ctx_gen = Len(s_available_contexts)
             /\ ctx_st = [c \in CtxIds |->
                    IF c = s_main_hglrc \/ c \in Range(s_available_contexts)
                    THEN "live" ELSE "none"]
    /\ h_video_inits = 1
    /\ s_shared_contexts = <<>>
    /\ WorkersIdle

NextContexts == \E w \in Workers : Worker(w)

SpecContexts == InitContexts /\ [][NextContexts]_vars

\* ===================================================================== claims
\* Program counters of retro_run after libretro_has_new_frame has returned
AfterHasNewFrame ==
    {"blit", "make_fbo", "make_fbo_done", "check_fbo", "read_width", "read_height",
     "do_blit", "video_cb_valid", "video_cb_null"}

\* C1 (P2, counter invariant): in every reachable state consumed
\* (s_last_presented_frame) <= produced (s_frame_count), libretro_has_new_frame()
\* is true exactly when consumed < produced, and the value retro_run got from it
\* is true exactly when consumed was below the produced count it loaded.
C1_CounterInvariant ==
    /\ s_last_presented_frame <= s_frame_count
    /\ (libretro_has_new_frame <=> s_last_presented_frame < s_frame_count)
    /\ (m_in_run /\ m_pc \in AfterHasNewFrame =>
            /\ (m_has_new_frame <=> s_last_presented_frame < h_seen_count)
            /\ (m_has_new_frame => s_last_presented_frame < s_frame_count))

\* C1 witness: libretro_mark_frame_presented has loaded the count and the render
\* thread has signalled another frame before the store.
C1_Witness ==
    /\ m_pc = "mark_store"
    /\ m_count < s_frame_count
    /\ s_last_presented_frame < m_count

\* A fence that is alive and that nothing refers to any more
Leaked(f) ==
    /\ fence_st[f] = "live"
    /\ f # s_present_fence
    /\ f # m_fence
    /\ f # r_old
    /\ ~(r_pc = "install" /\ f = r_fence)

\* C2 (at most one fence pending): the slot refers to nothing or to a live
\* fence, and no fence that has left the slot stays alive, except the one the
\* consumer is waiting on (and the one the producer has just swapped out and is
\* about to delete).
C2_OnePendingFence ==
    /\ s_present_fence # 0 => fence_st[s_present_fence] = "live"
    /\ \A f \in FenceIds : ~Leaked(f)

\* C3 (P1, fence monotonicity): the fence a libretro_wait_for_present_fence call
\* takes from the slot is the one of the most recent install before its exchange,
\* and the slot never holds an older fence than that.
C3_FenceMonotonic ==
    /\ [](s_present_fence # 0 => s_present_fence = h_last_installed)
    /\ [][(m_fence' # m_fence /\ m_fence' # 0) => m_fence' = h_last_installed]_vars

\* C3 witness: the consumer waits on a fence that superseded an older one the
\* consumer never waited on.
C3_Witness ==
    /\ m_pc = "client_wait"
    /\ m_fence = h_last_installed
    /\ \E f \in FenceIds : f < m_fence /\ f \notin h_waited /\ fence_st[f] = "deleted"

\* All three GL sync entry points were resolved
FencesSupported == glFenceSync /\ glClientWaitSync /\ glDeleteSync

\* C4: whenever retro_run reads the shared render target for frame N (the count
\* libretro_has_new_frame loaded), it has waited on the fence installed by the
\* flip that produced frame N, or on a later one (which covers it).
C4_ReadAfterFence ==
    (FencesSupported /\ m_in_run /\ m_pc = "do_blit") =>
        \E f \in h_waited : f >= h_frame_fence[h_seen_count]

\* C5 (no torn resize): the (width, height) pair libretro_blit_to_frontend hands
\* to glBlitFramebuffer is a size the shared render target was created with or
\* completely resized to, never the width of one size and the height of another.
C5_NoTornResize ==
    m_pc = "do_blit" => <<m_w, m_h>> \in h_sizes

\* C6 (ensure_capacity never shrinks): a libretro_ensure_render_size(w2, h2) call
\* with w2 below the current width or h2 below the current height leaves the
\* shared render target unchanged, i.e. it never starts a resize.
C6_NeverShrinks ==
    r_pc = "resize_tex" =>
        /\ r_w >= s_shared_texture_width
        /\ r_h >= s_shared_texture_height

\* 1 when the time since the last tick already exceeds the pause threshold
ElapsedCrossing == IF now_us - h_tick_us > pause_threshold_us THEN 1 ELSE 0

\* The tick gaps so far cross the pause threshold at most once and every gap
\* after the crossing is strictly between the two thresholds
CrossesOnce == h_crossings + ElapsedCrossing <= 1 /\ h_gaps_ok

\* C7 as amended (P5, pause hysteresis): for a tick-gap sequence that crosses
\* the pause threshold once and afterwards stays strictly between the resume
\* and the pause threshold, the watchdog issues at most one pause command and
\* at most one resume command.
C7_Hysteresis ==
    CrossesOnce => h_pauses <= 1 /\ h_resumes <= 1

\* C7 witness: one gap above the pause threshold, a later gap between the
\* thresholds, one pause and one resume issued.
C7_Witness ==
    /\ h_crossings = 1 /\ h_gaps_ok /\ ElapsedCrossing = 0
    /\ h_ticks > h_cross_tick
    /\ h_pauses = 1 /\ h_resumes = 1

\* C7 as stated: for such a tick-gap sequence (one gap above the pause
\* threshold, at least one later gap, all later gaps strictly between the
\* thresholds) the watchdog issues at most one pause command and zero resume
\* commands.
C7_Original ==
    (h_crossings = 1 /\ h_gaps_ok /\ ElapsedCrossing = 0 /\ h_ticks > h_cross_tick)
        => h_pauses <= 1 /\ h_resumes = 0

\* C9: the watchdog calls Emu.Resume only for a pause it issued itself, never
\* while the emulator's current pause is one somebody else issued.
C9_NoForeignResume ==
    [][h_resumes' > h_resumes => h_pause_owner # "other"]_vars

\* C8 (Scenario D): with tick gaps of 20 x 10 ms, 150 ms, 20 x 10 ms the
\* watchdog makes exactly one pause, issued during the 150 ms gap, and exactly
\* one resume, issued within a few ticks of the tick that ends that gap; no
\* further pause or resume occurs.
C8_ScenarioD ==
    /\ h_pauses <= 1 /\ h_resumes <= 1
    /\ (h_pauses = 1 => h_pause_tick = ShortTicks)
    /\ (h_ticks > ShortTicks => h_pauses = 1)
    /\ (h_resumes = 1 => h_resume_tick \in (ShortTicks + 1)..(ShortTicks + 1 + FewTicks))
    /\ (h_ticks > ShortTicks + 1 + FewTicks => h_resumes = 1 /\ Emu_IsRunning)

\* C8 witness: the scenario has been played to its last tick, with one pause
\* and one resume.
C8_Witness ==
    /\ h_ticks = ScenarioTicks
    /\ m_pc = "idle"
    /\ h_pauses = 1 /\ h_resumes = 1
    /\ h_pause_tick = ShortTicks
    /\ Emu_IsRunning

\* The watchdog threads that exist: started and not yet finished
LiveWatchdogs == {t \in ThreadIds : wd_pc[t] \notin {"none", "done"}}

\* C10: at most one watchdog thread exists at any time across any sequence of
\* retro_load_game / context_reset / retro_unload_game / retro_deinit: a
\* start_pause_watchdog call while one is running starts no second thread (and
\* never assigns to a joinable handle), and after stop_pause_watchdog has
\* returned no watchdog thread is left, so a later load starts from none.
C10_OneWatchdog ==
    /\ Cardinality(LiveWatchdogs) <= 1
    /\ Cardinality({t \in ThreadIds : wd_pc[t] # "none"}) <= 1
    /\ ~terminated
    /\ (m_pc = "idle" /\ ~s_pause_watchdog_running =>
            \A t \in ThreadIds : wd_pc[t] = "none")

\* C10 witness: a second load has started a watchdog again after an unload
\* joined the first one, and the host calls start_pause_watchdog once more.
C10_Witness ==
    /\ host_calls >= 5
    /\ m_pc = "start_xchg" /\ m_site = "reset"
    /\ s_pause_watchdog_running
    /\ Cardinality(LiveWatchdogs) = 1

\* Where in h_trace the main thread passed program position e
Positions(e) == {i \in DOMAIN h_trace : h_trace[i] = e}
Passed(e) == Positions(e) # {}
\* Every pass of b came after a pass of a
Before(a, b) == \A j \in Positions(b) : \E i \in Positions(a) : i < j
\* The video_cb calls of the current tick
VideoCbs == Positions("video_cb_valid") \cup Positions("video_cb_null")
\* A retro_run call that got past its game_loaded guard has returned
TickReturned == m_pc = "idle" /\ h_trace # <<>>

\* C11: every retro_run tick with a game loaded makes exactly one video_cb call:
\* video_cb(RETRO_HW_FRAME_BUFFER_VALID) after a libretro_blit_to_frontend call
\* if libretro_has_new_frame() returned true in that tick, otherwise
\* video_cb(NULL) with no blit; libretro_mark_frame_presented runs only on the
\* VALID path, once, after the video_cb call.
C11_OneSubmission ==
    /\ Cardinality(VideoCbs) <= 1
    /\ (TickReturned => Cardinality(VideoCbs) = 1)
    /\ (Passed("video_cb_valid") =>
            /\ m_has_new_frame
            /\ Before("has_new", "video_cb_valid")
            /\ Before("blit", "video_cb_valid")
            /\ h_video_cb = "RETRO_HW_FRAME_BUFFER_VALID")
    /\ (Passed("video_cb_null") =>
            /\ ~m_has_new_frame
            /\ Before("has_new", "video_cb_null")
            /\ ~Passed("blit") /\ ~Passed("do_blit")
            /\ ~Passed("mark_load") /\ ~Passed("mark_store")
            /\ h_video_cb = "NULL")
    /\ (Passed("has_new") /\ TickReturned =>
            (m_has_new_frame <=> Passed("video_cb_valid")))
    /\ Before("video_cb_valid", "mark_load")
    /\ Before("mark_load", "mark_store")
    /\ Cardinality(Positions("mark_store")) <= 1
    /\ (Passed("video_cb_valid") /\ TickReturned => Passed("mark_store"))

\* C11 witness: a tick that presented a new frame (blit, VALID, mark) has been
\* followed by a tick that found none and reused the previous frame.
C11_Witness ==
    /\ TickReturned
    /\ h_ticks = 2
    /\ Passed("video_cb_null")
    /\ s_last_presented_frame > 0
    /\ h_blit_size # <<0, 0>>

\* The program positions of libretro_blit_to_frontend
BlitSteps ==
    {"blit", "make_fbo", "make_fbo_done", "check_fbo", "read_width", "read_height", "do_blit"}

\* The place of a program position in the order of retro_run's steps: input
\* poll, pad apply, audio drain, GL cleanup, fence wait_and_clear,
\* has_new_frame query, blit, video_cb, mark presented
Rank(e) ==
    CASE e = "input" -> 1
      [] e = "pads" -> 2
      [] e = "audio" -> 3
      [] e = "cleanup" -> 4
      [] e \in {"fence", "client_wait", "delete_sync"} -> 5
      [] e = "has_new" -> 6
      [] e \in BlitSteps -> 7
      [] e \in {"video_cb_valid", "video_cb_null"} -> 8
      [] OTHER -> 9

\* The steps every tick takes (the blit and the mark depend on has_new_frame)
EveryTickRanks == {1, 2, 3, 4, 5, 6, 8}

\* C12: within each retro_run tick the steps occur in the fixed order host
\* input poll, emulator pad apply, audio drain, GL state cleanup, fence
\* wait_and_clear, has_new_frame query, then the blit (if any) and the video_cb
\* call: no step comes before an earlier one, every step is preceded by all the
\* steps due before it, and the libretro_wait_for_present_fence call precedes
\* every read of the shared render target in the tick.
C12_FixedOrder ==
    /\ \A i, j \in DOMAIN h_trace :
            i < j => Rank(h_trace[i]) <= Rank(h_trace[j])
    /\ \A i \in DOMAIN h_trace : \A r \in EveryTickRanks :
            r < Rank(h_trace[i]) => \E k \in 1..(i - 1) : Rank(h_trace[k]) = r
    /\ \A e \in {"input", "pads", "audio", "cleanup", "fence", "has_new"} :
            Cardinality(Positions(e)) <= 1
    /\ (TickReturned => \A r \in EveryTickRanks :
            \E i \in DOMAIN h_trace : Rank(h_trace[i]) = r)
    /\ Before("fence", "do_blit")
    /\ (m_pc \in BlitSteps => Passed("fence"))

\* C12 witness: a tick has waited on a fence, read the shared render target
\* and is about to call video_cb.
C12_Witness ==
    /\ m_pc = "video_cb_valid"
    /\ Passed("client_wait")
    /\ Passed("do_blit")
    /\ Len(h_trace) >= 9

\* C13 (newest fence wins): when the producer installs a fence while an earlier
\* fence is still in the slot, the install hands the earlier fence to the
\* producer, whose next step in the same flip call destroys it (it is alive
\* until then and nobody else has it); once the install step is over, the only
\* live fence among those the consumer has not taken is the newly installed one.
C13_NewestFenceWins ==
    /\ [][(r_pc = "install" /\ r_pc' # "install" /\ s_present_fence # 0) =>
            /\ r_pc' = "delete_old"
            /\ r_old' = s_present_fence
            /\ s_present_fence' = r_fence]_vars
    /\ [](r_pc = "delete_old" =>
            /\ r_old # 0
            /\ fence_st[r_old] = "live"
            /\ r_old # s_present_fence
            /\ r_old \notin h_taken)
    /\ [][(r_pc = "delete_old" /\ r_pc' # "delete_old") =>
            fence_st' = [fence_st EXCEPT ![r_old] = "deleted"]]_vars
    /\ [](r_pc \notin {"install", "delete_old"} =>
            \A f \in FenceIds \ h_taken :
                fence_st[f] = "live" => f = s_present_fence /\ f = h_last_installed)

\* C13 witness: two installs with no consumer call in between have left the
\* first fence destroyed and the second the only live fence.
C13_Witness ==
    /\ h_ticks = 0
    /\ r_pc = "count"
    /\ s_present_fence = r_fence
    /\ \E f \in FenceIds : f < r_fence /\ fence_st[f] = "deleted"
    /\ \A f \in FenceIds : fence_st[f] = "live" <=> f = s_present_fence

\* The main thread is inside libretro_wait_for_present_fence, past the exchange
InFenceWait == m_pc \in {"client_wait", "delete_sync"}

\* C14: libretro_wait_for_present_fence takes the installed fence out of the
\* slot, leaving the slot empty, and has destroyed that fence when it returns,
\* whatever glClientWaitSync returned; with no fence installed it changes
\* nothing.
C14_WaitAndClear ==
    /\ [][(m_pc = "fence" /\ m_pc' # "fence") =>
            /\ s_present_fence' = 0
            /\ h_taken' = h_taken \cup ({s_present_fence} \ {0})
            /\ (s_present_fence = 0 => m_pc' = "has_new" /\ fence_st' = fence_st)]_vars
    /\ [](InFenceWait => m_fence \in h_taken /\ fence_st[m_fence] = "live")
    /\ [][(m_pc = "client_wait" /\ m_pc' # "client_wait") => m_pc' = "delete_sync"]_vars
    /\ [][(m_pc = "delete_sync" /\ m_pc' # "delete_sync") =>
            fence_st' = [fence_st EXCEPT ![m_fence] = "deleted"]]_vars
    /\ [](~InFenceWait => \A f \in h_taken : fence_st[f] = "deleted")

\* C15 (P3, no-frame-yet safety): as long as the producer-side resources have
\* never been created (no libretro_ensure_render_size and no
\* libretro_get_rsx_fbo call has run), a libretro_blit_to_frontend call returns
\* at its first test: it creates no consumer FBO, binds nothing and never
\* reaches glBlitFramebuffer, so the host's framebuffer is not written.
C15_NoFrameYet ==
    /\ [](~s_rsx_resources_created =>
            /\ ensure_calls = 0
            /\ m_pc \in {"idle", "blit"}
            /\ \A i \in DOMAIN h_trace : h_trace[i] = "blit"
            /\ s_main_read_fbo = 0 /\ fbo_gen = 0 /\ ~s_main_fbo_created
            /\ h_blit_size = <<0, 0>>)
    /\ [][(m_pc = "blit" /\ m_pc' # "blit" /\ ~s_rsx_resources_created) =>
            /\ m_pc' = "idle"
            /\ UNCHANGED <<mainfbo_vars, tex_vars, h_blit_size>>]_vars

\* C15 witness: a second libretro_blit_to_frontend call has returned and the
\* render thread has still created nothing.
C15_Witness ==
    /\ ~s_rsx_resources_created
    /\ blit_calls = 2
    /\ m_pc = "idle"
    /\ h_trace = <<"blit">>

\* The platform calls of worker w's last make_context call that succeeded
Succeeded(w) == {i \in DOMAIN h_make[w].calls : h_make[w].calls[i][2]}

\* C16 (P6, pool exhaustion fallback): a make_context call that finds the
\* pre-created pool empty walks the creation calls in the order shared,
\* unshared, legacy and stops at the first that succeeds; it returns the
\* context that call created, and returns nullptr only when every creation
\* call failed (with no main device context captured there is none to make).
C16_ExhaustionFallback ==
    \A w \in Workers :
        LET call == h_make[w]
            made == call.calls
        IN /\ (~call.empty => made = <<>>)
           /\ (call.done /\ ~call.empty => call.ret \in CtxIds \ {MainCtx})
           /\ Len(made) <= Len(Ladder)
           /\ \A i \in DOMAIN made : made[i][1] = Ladder[i]
           /\ \A i \in Succeeded(w) : i = Len(made)
           /\ (call.done /\ call.empty =>
                  /\ (call.ret # 0 <=> Succeeded(w) # {})
                  /\ (call.ret # 0 =>
                         /\ call.ret \in CtxIds \ {MainCtx}
                         /\ ctx_st[call.ret] # "none"
                         /\ call.ret \notin Range(s_available_contexts))
                  /\ (call.ret = 0 =>
                         /\ Succeeded(w) = {}
                         /\ (s_main_hdc /\ s_main_hglrc # 0 => Len(made) = Len(Ladder))
                         /\ (~(s_main_hdc /\ s_main_hglrc # 0) => made = <<>>)))

\* C16 witness: with the pool used up, a make_context call got its context
\* from the legacy call after the shared and the unshared creation had failed.
C16_Witness ==
    \E w \in Workers :
        /\ h_make[w].done /\ h_make[w].empty
        /\ h_make[w].ret # 0
        /\ Len(h_make[w].calls) = 3
        /\ Len(s_shared_contexts) >= 2

\* C17: delete_context never destroys the main context; every other
\* checked-out context a finished delete_context call was given has been
\* destroyed (once) and is no longer in s_shared_contexts, and no context ever
\* goes back into s_available_contexts.
C17_Release ==
    /\ [](s_main_hglrc # 0 => ctx_st[s_main_hglrc] = "live")
    /\ [](\A c \in h_released :
            ctx_st[c] # "none" =>
                /\ ctx_st[c] = "deleted"
                /\ c \notin Range(s_shared_contexts)
                /\ c \notin Range(s_available_contexts))
    /\ [][Range(s_available_contexts') \subseteq Range(s_available_contexts)]_vars

\* Emu.BootGame of the running context_reset threw or returned an error code
BootGameFailed == h_boot \in {"generic_error", "std_exception", "other_exception"}

\* C18: on a boot failure the retro_load_game call that asked for the boot has
\* returned false, and when the failure has been dealt with the bridge is in
\* its pre-load state: game_loaded false, no pending boot, no watchdog running.
C18_LoadFailure ==
    /\ [](BootGameFailed => h_load_result = "false")
    /\ [][(BootGameFailed /\ m_pc = "reset_done" /\ m_pc' = "idle") =>
            /\ ~game_loaded'
            /\ ~pending_game_boot'
            /\ ~s_pause_watchdog_running'
            /\ \A t \in ThreadIds : wd_pc'[t] \in {"none", "done"}]_vars

\* C19: whenever Emu.BootGame returns an error code or throws, do_boot_game
\* returns false to context_reset (the exception goes no further), game_loaded
\* stays false and no pause watchdog is started, so that context_reset ends
\* with no game loaded.
C19_BootFailure ==
    /\ [][(m_pc = "boot" /\ m_pc' # "boot" /\ BootGameFailed') =>
            /\ m_pc' = "reset_done"
            /\ ~terminated'
            /\ UNCHANGED <<game_loaded, wdflag_vars, wd_pc, emu_state>>]_vars
    /\ [](BootGameFailed =>
            /\ m_pc = "reset_done"
            /\ ~game_loaded
            /\ ~s_pause_watchdog_running
            /\ \A t \in ThreadIds : wd_pc[t] \in {"none", "done"})
    /\ [][(BootGameFailed /\ m_pc' # m_pc) =>
            /\ m_pc' = "idle"
            /\ ~game_loaded'
            /\ ~s_pause_watchdog_running']_vars

\* C19 witness: a game ran and was unloaded, and the boot of the next load
\* ends with an exception that is no std::exception.
C19_Witness ==
    /\ h_boot = "other_exception"
    /\ m_pc = "reset_done"
    /\ emu_state = "stopped"
    /\ host_calls >= 5

\* C20: every retro_run tick with a game loaded reaches its video_cb call and
\* returns to the host, whatever the render thread and the emulator's audio
\* thread do (no fence ever reported signalled, the audio lock never released).
\* The state it leads to is the tick's return with its video_cb call made.
C20_NeverBlocked == m_in_run ~> (m_pc = "idle" /\ Cardinality(VideoCbs) = 1)

\* C20 witness: a tick has returned after its audio lock attempt ran out of time
\* and its fence wait timed out, with the audio lock still held
C20_Witness ==
    /\ TickReturned
    /\ Passed("lock_timeout")
    /\ Passed("client_wait")
    /\ m_result = "GL_TIMEOUT_EXPIRED"
    /\ m_mutex = "emu"
    /\ VideoCbs # {}

\* C21: libretro_mark_frame_presented takes a snapshot.  After frame signals
\* with no mark in between libretro_has_new_frame() returns true; one mark
\* stores the produced count it loaded, however many signals that is above the
\* old consumed value; after it libretro_has_new_frame() returns false unless a
\* frame has been signalled since the load, and consumed changes nowhere else.
C21_MarkSnapshots ==
    /\ [][(m_pc = "has_new" /\ m_pc' # "has_new") =>
            (m_has_new_frame' <=> s_frame_count > s_last_presented_frame)]_vars
    /\ [][(m_pc = "mark_load" /\ m_pc' = "mark_store") => m_count' = s_frame_count]_vars
    /\ [][(m_pc = "mark_store" /\ m_pc' # "mark_store") =>
            /\ s_last_presented_frame' = m_count
            /\ s_last_presented_frame' >= s_last_presented_frame
            /\ (s_frame_count' > s_last_presented_frame' <=> s_frame_count > m_count)]_vars
    /\ [][s_last_presented_frame' # s_last_presented_frame => m_pc = "mark_store"]_vars
    /\ [][(s_frame_count = s_last_presented_frame /\
           s_frame_count' > s_last_presented_frame') =>
            s_frame_count' = s_frame_count + 1]_vars

\* C21 witness: two frames were signalled before the first tick, whose single
\* mark took consumed from 0 to 2; nothing is new after it.
C21_Witness ==
    /\ TickReturned
    /\ h_ticks = 1
    /\ Passed("mark_store")
    /\ s_last_presented_frame = 2
    /\ s_frame_count = 2
    /\ ~m_in_run

\* C22: a frame is signalled once for every two flips that are not skipped.
\* The flip count goes up by one per such flip, produced goes up (by one, with
\* the ready flag set) exactly when the new flip count is even, so produced is
\* always half the flip count; a flip with skip_frame set leaves the fence slot,
\* the fences, produced, the ready flag and the flip count as they were.
C22_OncePerFrame ==
    /\ [](s_frame_count = tl_flip_count \div 2)
    /\ [][tl_flip_count' # tl_flip_count =>
            /\ r_pc = "count"
            /\ tl_flip_count' = tl_flip_count + 1
            /\ (tl_flip_count' % 2 = 0 =>
                    s_frame_count' = s_frame_count + 1 /\ s_frame_ready')
            /\ (tl_flip_count' % 2 = 1 => UNCHANGED <<s_frame_count, s_frame_ready>>)]_vars
    /\ [][s_frame_count' # s_frame_count => tl_flip_count' # tl_flip_count]_vars
    /\ [][(flip_calls' # flip_calls /\ r_pc' = "idle") =>
            UNCHANGED <<s_present_fence, s_present_fence_counter, fence_st, s_frame_count,
                        s_frame_ready, tl_flip_count>>]_vars

\* C22 witness: four flips, one of them skipped: three counted, one frame
C22_Witness ==
    /\ flip_calls = 4
    /\ tl_flip_count = 3
    /\ s_frame_count = 1
    /\ r_pc = "idle"

\* The fence wait of the current tick timed out or failed
WaitTimedOut ==
    Passed("client_wait") /\ m_result \in {"GL_TIMEOUT_EXPIRED", "GL_WAIT_FAILED"}

\* C23: a fence wait that times out or fails is not an error.  Whatever
\* glClientWaitSync returns, the fence is deleted and the tick goes on to
\* libretro_has_new_frame, whose value is produced > consumed; a tick whose wait
\* timed out or failed returns after a blit and video_cb(VALID) if that value was
\* true, after video_cb(NULL) if it was false.
C23_TimeoutNoError ==
    /\ [][(m_pc = "client_wait" /\ m_pc' # "client_wait") => m_pc' = "delete_sync"]_vars
    /\ [][(m_pc = "delete_sync" /\ m_pc' # "delete_sync") => m_pc' = "has_new"]_vars
    /\ [][(m_pc = "has_new" /\ m_pc' # "has_new") =>
            /\ m_has_new_frame' = (s_frame_count > s_last_presented_frame)
            /\ m_pc' = (IF m_has_new_frame' THEN "blit" ELSE "video_cb_null")]_vars
    /\ []((TickReturned /\ WaitTimedOut) =>
            /\ Passed("delete_sync")
            /\ Passed("has_new")
            /\ (m_has_new_frame =>
                    /\ Passed("blit")
                    /\ Passed("video_cb_valid")
                    /\ h_video_cb = "RETRO_HW_FRAME_BUFFER_VALID"
                    /\ Passed("mark_store"))
            /\ (~m_has_new_frame => Passed("video_cb_null")))

\* C23 witness: a tick whose fence wait failed has presented a new frame
C23_Witness ==
    /\ TickReturned
    /\ Passed("client_wait")
    /\ m_result = "GL_WAIT_FAILED"
    /\ m_has_new_frame
    /\ Passed("do_blit")
    /\ Passed("video_cb_valid")

\* C24: when the platform lacks a fence entry point, fencing is off and nothing
\* else changes: the slot stays empty, no fence is alive, the fence wait of a
\* tick takes nothing and waits on nothing, and frames are still signalled (one
\* for two flips) and presented (a tick that saw a new frame submits it).
C24_FencingDisabled ==
    ~FencesSupported =>
        /\ s_present_fence = 0
        /\ \A f \in FenceIds : fence_st[f] # "live"
        /\ h_taken = {}
        /\ ~InFenceWait
        /\ s_frame_count = tl_flip_count \div 2
        /\ ((TickReturned /\ m_has_new_frame) => Passed("video_cb_valid"))

\* C25: libretro_ensure_render_size is idempotent.  A call with the arguments
\* of the call the render thread made just before it changes nothing: it
\* creates nothing, starts no resize (so the consumer-FBO flag is not cleared
\* again), and texture, producer FBO, renderbuffer, their storage and the
\* recorded size stay what the first call left.
C25_Idempotent ==
    [][(h_ensure' # h_ensure /\ Len(h_ensure') >= 2) =>
            UNCHANGED <<tex_vars, mainfbo_vars, h_sizes, r_pc, r_w, r_h>>]_vars

\* C25 witness: a call has resized the target to its arguments and the same
\* call has been made again
C25_Witness ==
    /\ Len(h_ensure) = 2
    /\ r_pc = "idle"
    /\ h_ensure[1] = <<r_w, r_h>>
    /\ r_w > DefaultWidth
    /\ s_main_fbo_created
    /\ <<s_shared_texture_width, s_shared_texture_height>> = h_ensure[1]
    /\ tex_storage = h_ensure[1]
    /\ rb_storage = h_ensure[1]

\* ---------------------------------------------------------------- C26
\* C26: with the OpenGL backend the game boots only after the host's
\* context-ready notification.  retro_load_game only records the pending boot
\* (it starts no boot, no watchdog and leaves the emulator alone); do_boot_game
\* runs only inside a context_reset whose libretro_video_init has completed,
\* with a load behind it that no earlier boot has used up, so at most once per
\* load; and the emulator leaves "stopped" only in such a boot.
C26_BootAfterContextReady ==
    /\ [][(h_load_result' # h_load_result /\ h_load_result' = "true") =>
            /\ pending_game_boot'
            /\ m_pc = "idle" /\ m_pc' = "idle"
            /\ UNCHANGED <<h_boot, game_loaded, emu_state, wd_pc,
                           s_pause_watchdog_running, s_gl_initialized>>]_vars
    /\ [][(m_pc = "boot" /\ m_pc' # "boot") =>
            /\ s_gl_initialized /\ s_get_current_framebuffer
            /\ pending_game_boot /\ ~game_loaded
            /\ h_load_result = "true"
            /\ h_boot = "none"]_vars
    /\ [][(m_pc # "boot" /\ m_pc' = "boot") =>
            /\ m_pc = "idle"
            /\ s_gl_initialized' /\ s_get_current_framebuffer'
            /\ host_calls' = host_calls + 1]_vars
    /\ [][(h_boot # "none" /\ m_pc' = "idle" /\ m_pc # "idle") =>
            (~pending_game_boot' /\ h_load_result' = "none")]_vars
    /\ [][(~pending_game_boot /\ pending_game_boot') =>
            (h_load_result' = "true" /\ h_load_result # "true")]_vars
    /\ [][(emu_state = "stopped" /\ emu_state' # "stopped") => m_pc = "boot"]_vars
    /\ [](m_pc = "idle" => (pending_game_boot <=> h_load_result = "true"))

\* A second context_reset without a load in between returned without booting:
\* the game of the first one is loaded and running, nothing is pending
C26_Witness ==
    /\ m_pc = "idle"
    /\ host_calls >= 4
    /\ game_loaded
    /\ emu_state = "running"
    /\ ~pending_game_boot
    /\ h_load_result = "none"
    /\ s_gl_initialized /\ s_get_current_framebuffer
    /\ h_ticks = 0

\* ---------------------------------------------------------------- C27
\* The fallback ladder of context negotiation
HwLadder == <<Core43, Core33, Compat30>>

\* C27: setup_hw_render requests OpenGL Core 4.3, then Core 3.3, then
\* compatibility 3.0, each as a separate SET_HW_RENDER call: the requests it
\* made are a non-empty prefix of that ladder, every request before the last
\* one was rejected, it returned true exactly if the host accepted the last
\* one (so it asked nothing after the first acceptance), and it returned false
\* only after all three were rejected.  hw_render is left as last requested.
C27_FallbackLadder ==
    h_hw_ret # "none" =>
        /\ Len(h_hw_calls) \in 1..3
        /\ h_hw_calls = SubSeq(HwLadder, 1, Len(h_hw_calls))
        /\ \A i \in 1..(Len(h_hw_calls) - 1) : ~environ_cb[h_hw_calls[i]]
        /\ h_hw_ret = "true" <=> environ_cb[h_hw_calls[Len(h_hw_calls)]]
        /\ h_hw_ret = "false" =>
                (Len(h_hw_calls) = 3 /\ \A i \in 1..3 : ~environ_cb[HwLadder[i]])
        /\ (Len(h_hw_calls) < 3 => h_hw_ret = "true")
        /\ hw_render = h_hw_calls[Len(h_hw_calls)]

\* The host rejected Core 4.3 and accepted Core 3.3; it would have accepted the
\* compatibility profile too, which was never requested
C27_Witness ==
    /\ core_initialized
    /\ h_hw_ret = "true"
    /\ h_hw_calls = <<Core43, Core33>>
    /\ environ_cb[Compat30]
    /\ hw_render = Core33

\* ---------------------------------------------------------------- C28
\* C28: the context pool is populated at most once.  Contexts are added to
\* s_available_contexts only by the first libretro_video_init call; once GL is
\* initialized (and it stays initialized through context_destroy) no step,
\* whether a later context_reset, a context_destroy or a worker, adds a
\* context to the available pool, which never holds more than was asked for.
C28_PopulatedOnce ==
    /\ [][s_gl_initialized =>
            /\ s_gl_initialized'
            /\ Len(s_available_contexts') <= Len(s_available_contexts)
            /\ Range(s_available_contexts') \subseteq Range(s_available_contexts)]_vars
    /\ [][s_available_contexts' # s_available_contexts =>
            /\ h_video_inits = 0 /\ h_video_inits' = 1
            /\ s_available_contexts = <<>>
            /\ host_calls' = host_calls + 1]_vars
    /\ [](h_video_inits >= 1 => s_gl_initialized)
    /\ [](Len(s_available_contexts) <= PrecreateCount)

\* After context_reset, context_destroy and context_reset again: the pool
\* holds what the first libretro_video_init pre-created and nothing more
C28_Witness ==
    /\ m_pc = "idle"
    /\ h_video_inits >= 2
    /\ host_calls > h_video_inits
    /\ s_get_current_framebuffer
    /\ s_gl_initialized
    /\ ctx_gen = PrecreateCount
    /\ Len(s_available_contexts) = PrecreateCount

\* ---------------------------------------------------------------- C29
\* The bridge is Idle: no game loaded, or no tick timestamp
BridgeIdle == ~core_initialized \/ ~game_loaded \/ s_last_retro_run_us = 0

\* C29: the watchdog issues a pause request only in a state where a game is
\* loaded, the time since the last retro_run tick exceeds the pause threshold,
\* the emulator is running and s_paused_by_watchdog is false; the thread that
\* issued it then sets s_paused_by_watchdog; and while the bridge is Idle the
\* watchdog issues neither a pause nor a resume.
C29_PauseGuard ==
    /\ [][h_pauses' # h_pauses =>
            /\ core_initialized /\ game_loaded
            /\ now_us - s_last_retro_run_us > pause_threshold_us
            /\ Emu_IsRunning
            /\ ~s_paused_by_watchdog]_vars
    /\ [][\A t \in ThreadIds :
            /\ (wd_pc[t] = "do_pause" /\ wd_pc'[t] # "do_pause") =>
                    wd_pc'[t] = "store_paused"
            /\ (wd_pc[t] = "store_paused" /\ wd_pc'[t] # "store_paused") =>
                    s_paused_by_watchdog']_vars
    /\ [][BridgeIdle => (h_pauses' = h_pauses /\ h_resumes' = h_resumes)]_vars

\* ---------------------------------------------------------------- C30
\* The main thread is inside the loop of libretro_audio_process
InDrainLoop == m_pc \in {"get_samples", "try_lock", "lock_timeout", "samples"}

\* C30: the per-tick audio drain is bounded and stops early.  Every GetSamples
\* call of a libretro_audio_process call asks for FRAMES_PER_BATCH frames and
\* gets no more; a batch is forwarded to audio_batch_cb exactly if it is not
\* empty; every batch before the last one was full, so the loop stopped at the
\* first short batch; and a call makes at most MAX_BATCHES GetSamples calls:
\* inside the loop all batches so far were full and fewer than MAX_BATCHES,
\* after it the last batch was short or the MAX_BATCHES-th.
C30_BoundedDrain ==
    /\ Len(h_drain) <= MAX_BATCHES
    /\ batch \in 0..(MAX_BATCHES - 1)
    /\ \A i \in 1..Len(h_drain) :
            /\ h_drain[i].asked = FRAMES_PER_BATCH
            /\ h_drain[i].frames \in 0..FRAMES_PER_BATCH
            /\ h_drain[i].forwarded <=> h_drain[i].frames > 0
            /\ i < Len(h_drain) => h_drain[i].frames = FRAMES_PER_BATCH
    /\ InDrainLoop =>
            /\ Len(h_drain) = batch
            /\ Len(h_drain) < MAX_BATCHES
            /\ \A i \in 1..Len(h_drain) : h_drain[i].frames = FRAMES_PER_BATCH
    /\ (~InDrainLoop /\ h_drain # <<>>) =>
            \/ h_drain[Len(h_drain)].frames < FRAMES_PER_BATCH
            \/ Len(h_drain) = MAX_BATCHES

\* A tick whose drain took two full batches and a short one, all three
\* forwarded, and stopped there
C30_Witness ==
    /\ TickReturned
    /\ Len(h_drain) = 3
    /\ h_drain[1].frames = FRAMES_PER_BATCH /\ h_drain[2].frames = FRAMES_PER_BATCH
    /\ h_drain[3].frames = FRAMES_PER_BATCH - 1
    /\ \A i \in 1..3 : h_drain[i].forwarded

\* ---------------------------------------------------------------- C31
\* C31: no lost wakeup in the blocking wait.  A libretro_wait_for_frame call
\* returns false only with timeout_ms > 0, after its window is over, and when
\* no signal has set the flag since the last wait that returned true; a call
\* that returns while such a signal is there (it occurred before the call or
\* during it) returns true; and a call that returns true found the flag set
\* and leaves it cleared.
C31_NoLostWakeup ==
    /\ [][(h_wait_result' = "false" /\ h_wait_result # "false") =>
            /\ ~h_unconsumed /\ ~s_frame_ready
            /\ f_timeout_ms > 0 /\ f_expired]_vars
    /\ [][(f_pc # "idle" /\ f_pc' = "idle" /\ h_unconsumed) =>
            h_wait_result' = "true"]_vars
    /\ [][(h_wait_result' = "true" /\ h_wait_result # "true") =>
            (s_frame_ready /\ ~s_frame_ready' /\ ~h_unconsumed')]_vars
    /\ [](s_frame_mutex = "free" => (s_frame_ready <=> h_unconsumed))

\* A timed wait that found no frame ready, blocked, was signalled while it
\* waited and returned true with the flag cleared
C31_Witness ==
    /\ f_pc = "idle"
    /\ h_wait_result = "true"
    /\ h_wait_blocked
    /\ f_timeout_ms > 0
    /\ ~s_frame_ready
    /\ signal_calls >= 1

\* ---------------------------------------------------------------- C32
\* C32: every blit that follows a completed resize reads through a consumer
\* FBO created after that resize.  A libretro_blit_to_frontend call that
\* passes its guard and finds s_main_fbo_created set goes on with the
\* s_main_read_fbo it finds; that FBO was created after every resize that has
\* completed by then.
C32_FboAfterResize ==
    [][(m_pc = "blit" /\ m_pc' = "check_fbo" /\ h_resizes >= 1) =>
          h_fbo_resizes >= h_resizes]_vars

\* ---------------------------------------------------------------- C33
\* C33: watchdog shutdown terminates.  Once stop_pause_watchdog has found the
\* watchdog running, the thread sees the stop flag and leaves its loop, so the
\* join returns; when stop_pause_watchdog returns no watchdog thread is left,
\* s_paused_by_watchdog is false and s_last_retro_run_us is 0; and the
\* watchdog issues a pause or a resume only while it is marked running or
\* stop_pause_watchdog has not yet returned from the join.
C33_ShutdownTerminates ==
    /\ (m_pc = "stop_signal") ~> (m_pc = "stop_reset" /\ LiveWatchdogs = {})
    /\ [][(m_pc = "stop_reset" /\ m_pc' # "stop_reset") =>
            /\ LiveWatchdogs' = {}
            /\ ~s_pause_watchdog_stop'
            /\ ~s_paused_by_watchdog'
            /\ s_last_retro_run_us' = 0]_vars
    /\ [][(h_pauses' # h_pauses \/ h_resumes' # h_resumes) =>
            (s_pause_watchdog_running \/ m_pc \in {"stop_signal", "stop_join"})]_vars
    /\ []((~s_pause_watchdog_running /\ m_pc \notin {"stop_signal", "stop_join"}) =>
            LiveWatchdogs = {})

\* stop_pause_watchdog has returned to retro_unload_game after joining a
\* watchdog that had paused emulation
C33_Witness ==
    /\ m_pc = "unload_rest"
    /\ h_pauses >= 1
    /\ LiveWatchdogs = {}
    /\ ~s_paused_by_watchdog
    /\ s_last_retro_run_us = 0
    /\ emu_state = "paused"

\* ---------------------------------------------------------------- C34
\* The contexts make_context has returned so far: those a caller holds and
\* those a caller has passed to delete_context
Returned ==
    UNION {c_held[w] : w \in Workers} \cup h_released
        \cup {c_ctx[w] : w \in {u \in Workers : c_pc[u] \in {"del_lock", "del_body"}}}

\* C34: checkout hands each pooled context to exactly one caller.  A context
\* a make_context call returns has not been returned by any call before, and
\* in every reachable state no context is both in s_available_contexts and in
\* s_shared_contexts (and none is in the pool twice).
C34_ExclusiveCheckout ==
    /\ [][\A w \in Workers :
            (h_make'[w].done /\ ~h_make[w].done /\ h_make'[w].ret # 0) =>
                h_make'[w].ret \notin Returned]_vars
    /\ [](Range(s_available_contexts) \cap Range(s_shared_contexts) = {})
    /\ [](Cardinality(Range(s_available_contexts)) = Len(s_available_contexts))

\* Two concurrent make_context calls have both been served from the pool
C34_Witness ==
    /\ \A w \in Workers :
          /\ c_pc[w] = "idle"
          /\ h_make[w].done /\ ~h_make[w].empty /\ h_make[w].ret # 0
    /\ Cardinality({h_make[w].ret : w \in Workers}) = MaxWorkers
    /\ Len(s_shared_contexts) = MaxWorkers

\* ---------------------------------------------------------------- C35
\* C35: when the emulator is stopped at the end of the post-boot wait of
\* do_boot_game, the boot counts as failed: do_boot_game returns false to
\* context_reset without starting the pause watchdog, and game_loaded is not
\* set as long as this boot is the last one.
C35_StoppedBootFails ==
    /\ [][(m_pc = "boot" /\ m_pc' # "boot" /\ h_boot' = "stopped") =>
            /\ m_pc' = "reset_done"
            /\ UNCHANGED <<game_loaded, wdflag_vars, wd_pc>>]_vars
    /\ [](h_boot = "stopped" =>
            /\ ~game_loaded
            /\ ~s_pause_watchdog_running
            /\ \A t \in ThreadIds : wd_pc[t] \in {"none", "done"})

\* ---------------------------------------------------------------- C36
\* C36: every fence is destroyed at most once and never while in use.  No
\* fence is passed to glDeleteSync twice; the fence the consumer has taken
\* from the slot stays alive until the consumer deletes it; and the fence the
\* producer has swapped out and is about to delete is neither the one the
\* consumer holds nor the one in the slot.
C36_SingleOwner ==
    /\ \A f \in FenceIds : fence_st[f] # "double_deleted"
    /\ InFenceWait => (m_fence # 0 /\ fence_st[m_fence] = "live")
    /\ r_pc = "delete_old" =>
          /\ r_old # 0 /\ fence_st[r_old] = "live"
          /\ r_old # m_fence
          /\ r_old # s_present_fence

\* The producer is about to delete the fence it swapped out while the
\* consumer waits on another one, after an earlier fence has been deleted
C36_Witness ==
    /\ r_pc = "delete_old"
    /\ m_pc = "client_wait"
    /\ r_old # m_fence
    /\ \E f \in FenceIds : fence_st[f] = "deleted"

\* ---------------------------------------------------------------- C37
\* C37: no produced frame is marked consumed without having been made
\* available to the host.  Whenever libretro_mark_frame_presented sets
\* s_last_presented_frame to c, the glBlitFramebuffer of the same tick ran
\* when s_frame_count had reached c already.
C37_ConsumedWasBlitted ==
    [][s_last_presented_frame' # s_last_presented_frame =>
          h_blit_count >= s_last_presented_frame']_vars

\* ---------------------------------------------------------------- C38
\* Worker w is inside a critical section that reads or writes
\* s_shared_contexts: the push_back of make_context (after a checkout or after
\* an on-demand creation) or the find / erase of delete_context
InSharedList(w) ==
    \/ c_pc[w] \in {"mk_push", "del_body"}
    \/ c_pc[w] = "mk_pool" /\ s_available_contexts # <<>>

\* C38: all accesses to s_shared_contexts are mutually exclusive.  No two
\* threads are inside a section that accesses the list at the same time; in
\* particular no make_context appends while a delete_context searches and
\* erases.
C38_SharedListExclusive ==
    \A w \in Workers : \A u \in Workers \ {w} : ~(InSharedList(w) /\ InSharedList(u))

\* ---------------------------------------------------------------- C39
\* C39: audio ring buffer consistency.  After any sequence of Open,
\* GetSamples and Close, with a write callback that returns at most the byte
\* count it was asked for: 0 <= m_ring_size <= capacity; with a buffer
\* allocated both positions are below the capacity and
\* (m_ring_read_pos + m_ring_size) mod capacity = m_ring_write_pos; with no
\* buffer (never opened, or closed) positions and size are 0.
C39_RingConsistent ==
    /\ 0 <= m_ring_size /\ m_ring_size <= m_ring_buffer_bytes
    /\ m_ring_read_pos >= 0 /\ m_ring_write_pos >= 0
    /\ m_ring_buffer_bytes > 0 =>
          /\ m_ring_read_pos < m_ring_buffer_bytes
          /\ m_ring_write_pos < m_ring_buffer_bytes
          /\ (m_ring_read_pos + m_ring_size) % m_ring_buffer_bytes = m_ring_write_pos
    /\ m_ring_buffer_bytes = 0 =>
          m_ring_read_pos = 0 /\ m_ring_write_pos = 0

\* A GetSamples call has returned and left data in the ring that wraps
\* around the end of the buffer
C39_Witness ==
    /\ b_pc = "idle"
    /\ m_initialized
    /\ b_pulls >= 1
    /\ m_ring_size > 0
    /\ m_ring_write_pos < m_ring_read_pos

====
